---- MODULE Spec2Model ----
(***************************************************************************)
(* Model of internal/provider/resource_vm.go of terraform-provider-pve:    *)
(* the VM lifecycle handlers (resourceVMCreate, resourceVMRead,            *)
(* resourceVMUpdate, resourceVMDelete), the                                *)
(* waiters (waitVMStopped, waitVMBootUpGetIP), the template swap           *)
(* (replaceTemplate) and the remote command executor                       *)
(* (executeCommandOnNode).  Every cluster call a handler makes is one      *)
(* step; the call is appended to the log `calls`, and its outcome is drawn *)
(* from what the cluster client can answer.                                *)
(***************************************************************************)
EXTENDS Integers, Sequences, FiniteSets, TLC

VARIABLES
    op,       \* the lifecycle handler that is running
    pc,       \* its position
    d,        \* schema.ResourceData: id, prior (old) and planned (new) values
    loc,      \* the handler's local variables
    calls,    \* the cluster calls issued so far, in order
    result,   \* "none" while running, then "ok" or the error returned
    cluster,  \* the virtualization cluster: the VM, its config, the auxiliary VM
    ctxDone,  \* the caller's context has been cancelled
    wait,     \* frame of waitVMStopped / waitVMBootUpGetIP
    swap,     \* frame of replaceTemplate
    exec      \* frame of executeCommandOnNode

vars == <<op, pc, d, loc, calls, result, cluster, ctxDone, wait, swap, exec>>

----------------------------------------------------------------------------
(* Bounds of the model *)

\* longest disk list of a resource
MaxDisks == 2
\* number of poll intervals that fit in a waiter's deadline (5 min / 2 s in the code)
MaxPolls == 2
\* number of output lines the terminal proxy delivers before the stream ends
MaxLines == 5

----------------------------------------------------------------------------
(* Maps with string keys: Go's map[string]interface{} *)

EmptyMap == [k \in {} |-> ""]

Put(m, k, v) == (k :> v) @@ m

Has(m, k) == k \in DOMAIN m

\* m[k], nil when the key is absent (the value of a Go map index expression)
Get(m, k) == IF k \in DOMAIN m THEN m[k] ELSE "<nil>"

Without(m, ks) == [k \in (DOMAIN m) \ ks |-> m[k]]

RECURSIVE JoinFrom(_, _, _)
JoinFrom(list, sep, i) ==
    IF i > Len(list) THEN ""
    ELSE IF i = Len(list) THEN list[i]
    ELSE list[i] \o sep \o JoinFrom(list, sep, i + 1)

\* strings.Join(list, sep)
Join(list, sep) == JoinFrom(list, sep, 1)

\* fmt.Sprintf("scsi%d", n), fmt.Sprintf("unused%d", n)
DeviceName(bus, n) == bus \o ToString(n)

\* fmt.Sprintf("%s:%d,format=qcow2", storage, size)
DiskValue(disk) == disk.storage \o ":" \o ToString(disk.size) \o ",format=qcow2"

\* lines 184-190: the config entries of the extra disks of a resource, scsi1 upwards
DiskEntries(disks) ==
    [k \in {DeviceName("scsi", j) : j \in 1..Len(disks)} |->
        DiskValue(disks[CHOOSE j \in 1..Len(disks) : DeviceName("scsi", j) = k])]

----------------------------------------------------------------------------
(* Input domains *)

Names == {"vm1", "vm2"}
CoreCounts == {1, 2}
Memories == {512, 1024}
Templates == {"debian-10", "debian-11"}
Statuses == {"running", "stopped"}
Disks == [storage : {"local"}, size : {8, 16}]

RECURSIVE SeqsUpTo(_, _)
SeqsUpTo(S, n) ==
    IF n = 0 THEN {<<>>}
    ELSE LET shorter == SeqsUpTo(S, n - 1)
         IN shorter \cup {Append(s, x) : s \in {t \in shorter : Len(t) = n - 1}, x \in S}

DiskLists == SeqsUpTo(Disks, MaxDisks)

\* the vmid recorded by d.SetId, and the id GetNextID hands out for a clone
VmId == 100
AuxId == 101

----------------------------------------------------------------------------
(* The cluster behind the API client (github.com/Telmate/proxmox-api-go) *)

\* the keys a config write may name in its delete list
DeletableKeys ==
    {DeviceName("scsi", n) : n \in 0..(MaxDisks + 1)}
        \cup {DeviceName("unused", n) : n \in 0..(MaxDisks + 1)}
        \cup {"ostype", "vga", "cpu"}

IsDiskKey(k) == k \in {DeviceName("scsi", n) : n \in 0..(MaxDisks + 1)}

\* the attributes replaceTemplate carries over from the template
TemplateAttrs == <<"ostype", "vga", "cpu">>

\* the delete lists the cluster can tell apart: a delete parameter is
\* parsed by splitting at ","
MaxDeleteLen == IF MaxDisks > Len(TemplateAttrs) THEN MaxDisks ELSE Len(TemplateAttrs)

DeleteLists == SeqsUpTo(DeletableKeys, MaxDeleteLen)

DeleteTable == [l \in DeleteLists |-> Join(l, ",")]

ParseDeleteList(str) ==
    IF \E l \in DeleteLists : DeleteTable[l] = str
    THEN CHOOSE l \in DeleteLists : DeleteTable[l] = str
    ELSE <<>>

\* lowest unused<N> slot that is free in a config
FreeUnused(config) ==
    CHOOSE n \in 0..(MaxDisks + 2) :
        /\ ~Has(config, DeviceName("unused", n))
        /\ \A m \in 0..(n - 1) : Has(config, DeviceName("unused", m))

\* the cluster deleting one key: a detached disk stays behind as an
\* unused<N> placeholder, anything else just goes
DeleteKey(config, k) ==
    IF ~Has(config, k) THEN config
    ELSE IF IsDiskKey(k)
         THEN Put(Without(config, {k}), DeviceName("unused", FreeUnused(config)), config[k])
         ELSE Without(config, {k})

RECURSIVE DeleteKeys(_, _)
DeleteKeys(config, list) ==
    IF list = <<>> THEN config
    ELSE DeleteKeys(DeleteKey(config, Head(list)), Tail(list))

\* how the cluster stores a written value: the onboot flag as 1 / 0
Stored(k, v) == IF k = "onboot" THEN (IF v THEN 1 ELSE 0) ELSE v

\* PUT /nodes/{node}/qemu/{vmid}/config
ApplyConfig(config, params) ==
    IF Has(params, "delete")
    THEN DeleteKeys(config, ParseDeleteList(params["delete"]))
    ELSE [k \in DOMAIN config \cup DOMAIN params |->
             IF k \in DOMAIN params THEN Stored(k, params[k]) ELSE config[k]]

\* one logged cluster call
Call(name, vm, params) == [call |-> name, vm |-> vm, params |-> params]

Issue(name, vm, params) == calls' = Append(calls, Call(name, vm, params))

----------------------------------------------------------------------------
(* Frames of the helper functions; idle while nobody has called them *)

IdleWait == [pc |-> "idle", fn |-> "none", elapsed |-> 0, limit |-> 0, res |-> "none",
             err |-> "none", ifaces |-> <<>>]
IdleSwap == [pc |-> "idle", res |-> "none", tplConfig |-> EmptyMap, vmConfig |-> EmptyMap,
             err |-> "none"]
IdleExec == [pc |-> "idle", res |-> "none", command |-> "", open |-> FALSE, closes |-> 0,
             sent |-> <<>>, replied |-> FALSE, reply |-> <<>>, boundry |-> "", state |-> "none",
             footer |-> <<>>, nread |-> 0, last |-> ""]

\* the handler returns err: diag.Errorf(...)
Return(err) ==
    /\ result' = err
    /\ pc' = "done"

Running == result = "none"

----------------------------------------------------------------------------
(* waitVMStopped: poll the power state until it is "stopped" *)

\* the call: ctx, cancel := context.WithTimeout(ctx, timeout)
\* a loop that would look at its context before the first poll
WaitVMStoppedFrameSelectFirst(timeout) ==
    [IdleWait EXCEPT !.pc = "select", !.fn = "waitVMStopped", !.limit = timeout]

\* timeout counts the poll intervals that fit before the deadline
WaitVMStoppedFrame(timeout) ==
    [IdleWait EXCEPT !.pc = "poll", !.fn = "waitVMStopped", !.limit = timeout]

CallWaitVMStopped == wait' = WaitVMStoppedFrame(MaxPolls)

\* state, err := client.GetVmState(vmref), and the test of state["status"]
WaitStoppedPoll ==
    /\ wait.fn = "waitVMStopped"
    /\ wait.pc = "poll"
    /\ Issue("GetVmState", "vm", EmptyMap)
    /\ \E ok \in BOOLEAN :
          wait' = IF ~ok THEN [wait EXCEPT !.pc = "done", !.res = "state error"]
                  ELSE IF cluster.status = "stopped"
                       THEN [wait EXCEPT !.pc = "done", !.res = "ok"]
                       ELSE [wait EXCEPT !.pc = "select"]
    /\ UNCHANGED <<op, pc, d, loc, result, cluster, ctxDone, swap, exec>>

\* select { case <-ctx.Done(): return ctx.Err(); case <-time.After(pollDuration): }
\* ctx is done when the caller cancelled or when the timeout has elapsed
WaitStoppedSelect ==
    /\ wait.fn = "waitVMStopped"
    /\ wait.pc = "select"
    /\ \E cancel \in BOOLEAN :
          /\ ctxDone' = (ctxDone \/ cancel)
          /\ wait' = IF ctxDone'
                     THEN [wait EXCEPT !.pc = "done", !.res = "context canceled"]
                     ELSE IF wait.elapsed >= wait.limit
                          THEN [wait EXCEPT !.pc = "done", !.res = "context deadline exceeded"]
                          ELSE [wait EXCEPT !.pc = "poll", !.elapsed = @ + 1]
    /\ UNCHANGED <<op, pc, d, loc, calls, result, cluster, swap, exec>>

\* the guest reacts to an accepted shutdown request and powers off
GuestPowersOff ==
    /\ Running
    /\ cluster.shutdownReq
    /\ cluster.status = "running"
    /\ cluster' = [cluster EXCEPT !.status = "stopped", !.shutdownReq = FALSE]
    /\ UNCHANGED <<op, pc, d, loc, calls, result, ctxDone, wait, swap, exec>>

\* POST .../status/shutdown, accepted by the cluster
AcceptShutdown(c) ==
    IF c.status = "running" THEN [c EXCEPT !.shutdownReq = TRUE] ELSE c

\* POST .../status/start, accepted by the cluster
AcceptStart(c) == [c EXCEPT !.status = "running", !.shutdownReq = FALSE]

----------------------------------------------------------------------------
(* waitVMBootUpGetIP: ask the guest agent for the interfaces until it answers *)

IP(v4, addr) == [v4 |-> v4, addr |-> addr]
Iface(name, ips) == [name |-> name, ips |-> ips]

\* what GetVmAgentNetworkInterfaces can answer once the agent is up
AgentReplies ==
    { <<Iface("lo", <<IP(TRUE, "127.0.0.1")>>),
        Iface("eth0", <<IP(FALSE, "fe80::1"), IP(TRUE, "10.0.0.5"), IP(TRUE, "10.0.0.6")>>)>>,
      <<Iface("eth0", <<IP(TRUE, "10.0.0.7")>>), Iface("eth1", <<IP(TRUE, "192.168.0.7")>>)>>,
      <<Iface("lo", <<IP(TRUE, "127.0.0.1")>>), Iface("eth0", <<IP(FALSE, "fe80::1")>>)>> }

\* for _, ip := range iface.IPAddresses { if len(ip.To4()) == net.IPv4len { d.Set(...) } }
RECURSIVE ScanAddresses(_, _)
ScanAddresses(ips, cur) ==
    IF ips = <<>> THEN cur
    ELSE ScanAddresses(Tail(ips), IF Head(ips).v4 THEN Head(ips).addr ELSE cur)

\* for _, iface := range ifaces { if iface.Name == "eth0" { ... } }
RECURSIVE ScanInterfaces(_, _)
ScanInterfaces(ifaces, cur) ==
    IF ifaces = <<>> THEN cur
    ELSE ScanInterfaces(Tail(ifaces),
                        IF Head(ifaces).name = "eth0"
                        THEN ScanAddresses(Head(ifaces).ips, cur)
                        ELSE cur)

\* the call: deadline, cancel := context.WithTimeout(context.Background(), timeout)
WaitVMBootUpGetIPFrame(polls) ==
    [IdleWait EXCEPT !.pc = "poll", !.fn = "waitVMBootUpGetIP", !.limit = polls]

CallWaitVMBootUpGetIP(polls) == wait' = WaitVMBootUpGetIPFrame(polls)

\* a loop without the deadline case: it would block once the time is up
IPWaitNoDeadline ==
    /\ wait.fn = "waitVMBootUpGetIP"
    /\ wait.pc = "poll"
    /\ wait.elapsed > wait.limit
    /\ UNCHANGED <<op, pc, d, loc, calls, result, cluster, ctxDone, wait, swap, exec>>

\* case <-deadline.Done(): return diag.Errorf("timeout when waiting guest agent ...")
IPWaitDeadline ==
    /\ wait.fn = "waitVMBootUpGetIP"
    /\ wait.pc = "poll"
    /\ wait.elapsed >= wait.limit
    /\ wait' = [wait EXCEPT !.pc = "done", !.res = "timeout when waiting guest agent"]
    /\ UNCHANGED <<op, pc, d, loc, calls, result, cluster, ctxDone, swap, exec>>

\* the errors GetVmAgentNetworkInterfaces can return
AgentErrors ==
    {"500 QEMU guest agent is not running", "500 VM 100 is not running",
     "500 no qemu guest agent configured"}

\* strings.Contains(err.Error(), "guest agent is not running"), over AgentErrors
AgentNotRunningAny(err) == err \in AgentErrors

AgentNotRunning(err) == err \in {"500 QEMU guest agent is not running"}

\* ifaces, err := client.GetVmAgentNetworkInterfaces(vmref) and what follows;
\* the frame keeps the last answer in err and ifaces
IPWaitQuery ==
    /\ wait.fn = "waitVMBootUpGetIP"
    /\ wait.pc = "poll"
    /\ wait.elapsed < wait.limit
    /\ Issue("GetVmAgentNetworkInterfaces", "vm", EmptyMap)
    /\ \/ \E err \in AgentErrors :
             IF AgentNotRunning(err)
             THEN \* time.Sleep(pollDuration); continue.  The caller may cancel
                  \* ctx during the sleep; the loop looks only at its own
                  \* deadline, made from context.Background()
                  /\ wait' = [wait EXCEPT !.elapsed = @ + 1, !.err = err]
                  /\ d' = d
                  /\ \E cancel \in BOOLEAN : ctxDone' = (ctxDone \/ cancel)
             ELSE /\ wait' = [wait EXCEPT !.pc = "done", !.err = err,
                                          !.res = "failed to get agent network interfaces"]
                  /\ d' = d
                  /\ ctxDone' = ctxDone
       \/ \E ifaces \in AgentReplies :
             /\ d' = [d EXCEPT !.ipv4 = ScanInterfaces(ifaces, d.ipv4)]
             /\ wait' = [wait EXCEPT !.pc = "done", !.res = "ok", !.err = "<nil>",
                                     !.ifaces = ifaces]
             /\ ctxDone' = ctxDone
    /\ UNCHANGED <<op, pc, loc, result, cluster, swap, exec>>

\* agent, ok := vmConfig["agent"]; agentStr, ok := agent.(string);
\* strings.Contains(agentStr, "enabled=1")
AgentValues == {"enabled=1", "enabled=1,type=virtio", "enabled=0", "1"}

AgentEnabled(vmConfig) ==
    /\ Has(vmConfig, "agent")
    /\ vmConfig["agent"] \in {"enabled=1", "enabled=1,type=virtio"}

----------------------------------------------------------------------------
(* resourceVMUpdate *)

\* d.HasChange(key)
HasChange(key) == d.old[key] # d.new[key]

\* lines 342-348: one attach entry per new index i, at device scsi<i+1>
AttachEntries(oldDisks, newDisks) ==
    LET idx == Len(oldDisks)..(Len(newDisks) - 1)
    IN [k \in {DeviceName("scsi", i + 1) : i \in idx} |->
           DiskValue(newDisks[(CHOOSE i \in idx : DeviceName("scsi", i + 1) = k) + 1])]

\* the detach list with the slot taken for the list index
DetachListOffByOne(oldDisks, newDisks) ==
    [j \in 1..(Len(oldDisks) - Len(newDisks)) |-> DeviceName("scsi", Len(newDisks) + j - 1)]

\* lines 351-355: the devices to detach, scsi<i+1> for i from len(new) to len(old)-1
DetachList(oldDisks, newDisks) ==
    [j \in 1..(Len(oldDisks) - Len(newDisks)) |-> DeviceName("scsi", (Len(newDisks) + j - 1) + 1)]

\* lines 362-366: for i := range deletes { unused = append(unused, "unused<i>") }
UnusedList(deletes) == [j \in 1..Len(deletes) |-> DeviceName("unused", j - 1)]

\* line 340: the disk list grew
DiskListGrew(oldDisks, newDisks) == Len(oldDisks) < Len(newDisks)

\* the plan with the name written whether it changed or not
PlanUpdatesAlways == Put(EmptyMap, "name", d.new.name)

\* lines 318-348: the updates map
PlanUpdates ==
    LET u1 == IF HasChange("name") THEN Put(EmptyMap, "name", d.new.name) ELSE EmptyMap
        u2 == IF HasChange("cores") THEN Put(u1, "cores", d.new.cores) ELSE u1
        u3 == IF HasChange("memory") THEN Put(u2, "memory", d.new.memory) ELSE u2
        u4 == IF HasChange("onboot") THEN Put(u3, "onboot", d.new.onboot) ELSE u3
    IN IF HasChange("disk") /\ DiskListGrew(d.old.disk, d.new.disk)
       THEN AttachEntries(d.old.disk, d.new.disk) @@ u4
       ELSE u4

\* lines 327, 332
\* a plan that would restart the VM for a new name as well
PlanShutdownNeededForName == HasChange("cores") \/ HasChange("memory") \/ HasChange("name")

\* lines 324-333: cores and memory cannot be changed on a running VM
PlanShutdownNeeded == HasChange("cores") \/ HasChange("memory")

\* Update going on without the shutdown
AfterSwapPcNoShutdown(shutdownNeeded) == "U_GetVmState"

\* Update shutting the VM down again whatever the flag says
AfterSwapPcAlwaysShutdown(shutdownNeeded) == "U_ShutdownVm"

\* where Update goes once the disk list is dealt with (line 376)
AfterSwapPc(shutdownNeeded) == IF shutdownNeeded THEN "U_ShutdownVm" ELSE "U_GetVmState"

AfterWritePc(shutdownNeeded) ==
    IF HasChange("template_name") THEN "U_GetVmRefsByName" ELSE AfterSwapPc(shutdownNeeded)

AfterDisksPc(updates, shutdownNeeded) ==
    IF DOMAIN updates # {} THEN "U_CheckVmRef2" ELSE AfterWritePc(shutdownNeeded)

\* lines 313-355: the first existence check, then the plan
UpdateCheckVmRef ==
    /\ op = "update" /\ pc = "U_CheckVmRef"
    /\ Issue("CheckVmRef", "vm", EmptyMap)
    /\ \E ok \in BOOLEAN :
          IF ~ok
          THEN Return("failed to check vm") /\ loc' = loc
          ELSE /\ loc' = [loc EXCEPT !.updates = PlanUpdates,
                                     !.shutdownNeeded = PlanShutdownNeeded,
                                     !.deletes = DetachList(d.old.disk, d.new.disk)]
               /\ result' = result
               /\ pc' = IF HasChange("disk") /\ ~DiskListGrew(d.old.disk, d.new.disk)
                        THEN "U_DetachDisks"
                        ELSE AfterDisksPc(PlanUpdates, PlanShutdownNeeded)
    /\ UNCHANGED <<op, d, cluster, ctxDone, wait, swap, exec>>

\* lines 356-361: client.SetVmConfig(vmref, {"delete": strings.Join(deletes, ",")})
UpdateDetachDisks ==
    /\ op = "update" /\ pc = "U_DetachDisks"
    /\ LET params == Put(EmptyMap, "delete", Join(loc.deletes, ","))
       IN /\ Issue("SetVmConfig", "vm", params)
          /\ \E ok \in BOOLEAN :
                IF ~ok
                THEN Return("failed to delete disk") /\ cluster' = cluster
                ELSE /\ cluster' = [cluster EXCEPT !.config = ApplyConfig(@, params)]
                     /\ pc' = "U_RemoveUnused"
                     /\ result' = result
    /\ UNCHANGED <<op, d, loc, ctxDone, wait, swap, exec>>

\* lines 362-372: client.SetVmConfig(vmref, {"delete": strings.Join(unused, ",")})
UpdateRemoveUnused ==
    /\ op = "update" /\ pc = "U_RemoveUnused"
    /\ LET params == Put(EmptyMap, "delete", Join(UnusedList(loc.deletes), ","))
       IN /\ Issue("SetVmConfig", "vm", params)
          /\ \E ok \in BOOLEAN :
                IF ~ok
                THEN Return("failed to delete ununsed disk") /\ cluster' = cluster
                ELSE /\ cluster' = [cluster EXCEPT !.config = ApplyConfig(@, params)]
                     /\ pc' = AfterDisksPc(loc.updates, loc.shutdownNeeded)
                     /\ result' = result
    /\ UNCHANGED <<op, d, loc, ctxDone, wait, swap, exec>>

\* lines 376-379
UpdateCheckVmRef2 ==
    /\ op = "update" /\ pc = "U_CheckVmRef2"
    /\ Issue("CheckVmRef", "vm", EmptyMap)
    /\ \E ok \in BOOLEAN :
          IF ~ok THEN Return("failed to check vm")
          ELSE pc' = "U_SetVmConfig" /\ result' = result
    /\ UNCHANGED <<op, d, loc, cluster, ctxDone, wait, swap, exec>>

\* lines 380-382: client.SetVmConfig(vmref, updates)
UpdateSetVmConfig ==
    /\ op = "update" /\ pc = "U_SetVmConfig"
    /\ Issue("SetVmConfig", "vm", loc.updates)
    /\ \E ok \in BOOLEAN :
          IF ~ok
          THEN Return("failed to update config") /\ cluster' = cluster
          ELSE /\ cluster' = [cluster EXCEPT !.config = ApplyConfig(@, loc.updates)]
               /\ pc' = AfterWritePc(loc.shutdownNeeded)
               /\ result' = result
    /\ UNCHANGED <<op, d, loc, ctxDone, wait, swap, exec>>

\* the call of replaceTemplate(ctx, client, name, vmref, tplref)
CallReplaceTemplate ==
    swap' = [IdleSwap EXCEPT !.pc = "R_GetTplConfig"]

\* lines 385-400: resolve the new template
UpdateGetVmRefsByName ==
    /\ op = "update" /\ pc = "U_GetVmRefsByName"
    /\ Issue("GetVmRefsByName", d.new.template_name, EmptyMap)
    /\ \E ok \in BOOLEAN :
          LET tplrefs == cluster.templates
          IN IF ~ok THEN Return("api error")
             ELSE IF Len(tplrefs) = 0 THEN Return("template not found")
             ELSE IF Len(tplrefs) > 1
                  THEN Return("found multiple template with same template_name")
             ELSE IF tplrefs[1].type # "qemu" THEN Return("template is not for qemu vm")
             ELSE pc' = "U_ShutdownForSwap" /\ result' = result
    /\ UNCHANGED <<op, d, loc, cluster, ctxDone, wait, swap, exec>>

\* lines 402-405: shut the VM down for the swap
UpdateShutdownForSwap ==
    /\ op = "update" /\ pc = "U_ShutdownForSwap"
    /\ Issue("ShutdownVm", "vm", EmptyMap)
    /\ \E ok \in BOOLEAN :
          IF ~ok
          THEN Return("failed to shutdown vm") /\ UNCHANGED <<cluster, wait>>
          ELSE /\ cluster' = AcceptShutdown(cluster)
               /\ CallWaitVMStopped
               /\ pc' = "U_WaitedForSwap"
               /\ result' = result
    /\ UNCHANGED <<op, d, loc, ctxDone, swap, exec>>

\* lines 405-409: waitVMStopped has returned
UpdateWaitedForSwap ==
    /\ op = "update" /\ pc = "U_WaitedForSwap"
    /\ wait.pc = "done"
    /\ wait' = IdleWait
    /\ IF wait.res # "ok"
       THEN Return("wait vm stopped: " \o wait.res) /\ swap' = swap
       ELSE CallReplaceTemplate /\ pc' = "U_Replaced" /\ result' = result
    /\ UNCHANGED <<op, d, loc, calls, cluster, ctxDone, exec>>

\* lines 409-413: replaceTemplate has returned
UpdateReplaced ==
    /\ op = "update" /\ pc = "U_Replaced"
    /\ swap.pc = "done"
    /\ swap' = IdleSwap
    /\ IF swap.res # "ok"
       THEN Return("failed to replace template: " \o swap.res) /\ loc' = loc
       ELSE /\ loc' = [loc EXCEPT !.shutdownNeeded = FALSE]
            /\ pc' = AfterSwapPc(FALSE)
            /\ result' = result
    /\ UNCHANGED <<op, d, calls, cluster, ctxDone, wait, exec>>

\* an Update that would look at the power state before asking for a shutdown
UpdateShutdownVmIfRunning ==
    /\ op = "update" /\ pc = "U_ShutdownVm"
    /\ IF cluster.status = "stopped"
       THEN /\ Issue("GetVmState", "vm", EmptyMap)
            /\ pc' = "U_GetVmState" /\ result' = result
            /\ UNCHANGED <<cluster, wait>>
       ELSE /\ calls' = calls \o <<Call("GetVmState", "vm", EmptyMap),
                                    Call("ShutdownVm", "vm", EmptyMap)>>
            /\ \E ok \in BOOLEAN :
                  IF ~ok
                  THEN Return("failed to shutdown vm") /\ UNCHANGED <<cluster, wait>>
                  ELSE /\ cluster' = AcceptShutdown(cluster)
                       /\ CallWaitVMStopped
                       /\ pc' = "U_WaitedShutdown"
                       /\ result' = result
    /\ UNCHANGED <<op, d, loc, ctxDone, swap, exec>>

\* lines 416-420: cores or memory changed
UpdateShutdownVm ==
    /\ op = "update" /\ pc = "U_ShutdownVm"
    /\ Issue("ShutdownVm", "vm", EmptyMap)
    /\ \E ok \in BOOLEAN :
          IF ~ok
          THEN Return("failed to shutdown vm") /\ UNCHANGED <<cluster, wait>>
          ELSE /\ cluster' = AcceptShutdown(cluster)
               /\ CallWaitVMStopped
               /\ pc' = "U_WaitedShutdown"
               /\ result' = result
    /\ UNCHANGED <<op, d, loc, ctxDone, swap, exec>>

\* lines 420-423
UpdateWaitedShutdown ==
    /\ op = "update" /\ pc = "U_WaitedShutdown"
    /\ wait.pc = "done"
    /\ wait' = IdleWait
    /\ IF wait.res # "ok"
       THEN Return("wait vm stopped: " \o wait.res)
       ELSE pc' = "U_GetVmState" /\ result' = result
    /\ UNCHANGED <<op, d, loc, calls, cluster, ctxDone, swap, exec>>

\* the switch with the running VM left alone
StatusBranchKeepRunning(currentStatus, desiredStatus) ==
    IF currentStatus = "running" THEN "ok"
    ELSE IF currentStatus = "stopped"
    THEN IF desiredStatus = "running" THEN "U_StartVm" ELSE "ok"
    ELSE "unknown vm status"

\* the switch taking every status that is not running for stopped
StatusBranchStartsUnknown(currentStatus, desiredStatus) ==
    IF currentStatus = "running"
    THEN IF desiredStatus = "running" THEN "ok"
         ELSE IF desiredStatus = "stopped" THEN "U_ShutdownStatus"
         ELSE "invalid status"
    ELSE IF desiredStatus = "running" THEN "U_StartVm"
         ELSE IF desiredStatus = "stopped" THEN "ok"
         ELSE "invalid status"

\* lines 432-472: the switch on the current and the desired status
StatusBranch(currentStatus, desiredStatus) ==
    IF currentStatus = "running"
    THEN IF desiredStatus = "running" THEN "ok"
         ELSE IF desiredStatus = "stopped" THEN "U_ShutdownStatus"
         ELSE "invalid status"
    ELSE IF currentStatus = "stopped"
    THEN IF desiredStatus = "running" THEN "U_StartVm"
         ELSE IF desiredStatus = "stopped" THEN "ok"
         ELSE "invalid status"
    ELSE "unknown vm status"

\* lines 425-472: read the power state and compare it with the desired status
UpdateGetVmState ==
    /\ op = "update" /\ pc = "U_GetVmState"
    /\ Issue("GetVmState", "vm", EmptyMap)
    /\ \E ok \in BOOLEAN :
          LET branch == StatusBranch(cluster.status, d.new.status)
          IN IF ~ok THEN Return("failed to get vm state") /\ loc' = loc
             ELSE /\ loc' = [loc EXCEPT !.currentStatus = cluster.status]
                  /\ IF branch \in {"U_ShutdownStatus", "U_StartVm"}
                     THEN pc' = branch /\ result' = result
                     ELSE Return(branch)
    /\ UNCHANGED <<op, d, cluster, ctxDone, wait, swap, exec>>

\* lines 437-440: running, desired stopped
UpdateShutdownStatus ==
    /\ op = "update" /\ pc = "U_ShutdownStatus"
    /\ Issue("ShutdownVm", "vm", EmptyMap)
    /\ \E ok \in BOOLEAN :
          IF ~ok
          THEN Return("failed to shutdown vm") /\ UNCHANGED <<cluster, wait>>
          ELSE /\ cluster' = AcceptShutdown(cluster)
               /\ CallWaitVMStopped
               /\ pc' = "U_WaitedStatus"
               /\ result' = result
    /\ UNCHANGED <<op, d, loc, ctxDone, swap, exec>>

\* lines 440-442
UpdateWaitedStatus ==
    /\ op = "update" /\ pc = "U_WaitedStatus"
    /\ wait.pc = "done"
    /\ wait' = IdleWait
    /\ IF wait.res # "ok"
       THEN Return("wait vm stopped: " \o wait.res)
       ELSE Return("ok")
    /\ UNCHANGED <<op, d, loc, calls, cluster, ctxDone, swap, exec>>

\* lines 449-451: stopped, desired running
UpdateStartVm ==
    /\ op = "update" /\ pc = "U_StartVm"
    /\ Issue("StartVm", "vm", EmptyMap)
    /\ \E ok \in BOOLEAN :
          IF ~ok
          THEN Return("failed to start vm") /\ cluster' = cluster
          ELSE /\ cluster' = AcceptStart(cluster)
               /\ pc' = "U_GetVmConfig"
               /\ result' = result
    /\ UNCHANGED <<op, d, loc, ctxDone, wait, swap, exec>>

\* lines 452-460: read the config to see whether the agent is enabled
UpdateGetVmConfig ==
    /\ op = "update" /\ pc = "U_GetVmConfig"
    /\ Issue("GetVmConfig", "vm", EmptyMap)
    /\ \E ok \in BOOLEAN :
          IF ~ok THEN Return("failed to get vm config") /\ wait' = wait
          ELSE IF AgentEnabled(cluster.config)
               THEN /\ CallWaitVMBootUpGetIP(MaxPolls)
                    /\ pc' = "U_WaitedIP"
                    /\ result' = result
               ELSE Return("ok") /\ wait' = wait
    /\ UNCHANGED <<op, d, loc, cluster, ctxDone, swap, exec>>

\* lines 460-462: waitVMBootUpGetIP has returned
UpdateWaitedIP ==
    /\ op = "update" /\ pc = "U_WaitedIP"
    /\ wait.pc = "done"
    /\ wait' = IdleWait
    /\ Return(wait.res)
    /\ UNCHANGED <<op, d, loc, calls, cluster, ctxDone, swap, exec>>

----------------------------------------------------------------------------
(* replaceTemplate *)

InSwap(label) == swap.pc = label

\* return err, before the deferred deletion is registered
SwapReturn(err) == swap' = [swap EXCEPT !.pc = "done", !.res = err]

\* an exit that skips the deferred deletion
SwapExitNoDefer(err) == swap' = [swap EXCEPT !.pc = "done", !.res = err]

\* return err, after it: the deferred function runs before the caller sees err
SwapExit(err) == swap' = [swap EXCEPT !.pc = "R_Deferred", !.res = err]

\* the check with the SCSI controller left out
CompatKeysBootOnly == <<"bootdisk">>

\* lines 731-735: the configs the swap refuses to change
CompatKeys == <<"bootdisk", "scsihw">>

\* the first key of a list on which template and VM differ, "" when none
RECURSIVE FirstDifference(_, _, _)
FirstDifference(keys, tplConfig, vmConfig) ==
    IF keys = <<>> THEN ""
    ELSE IF Get(tplConfig, Head(keys)) # Get(vmConfig, Head(keys)) THEN Head(keys)
    ELSE FirstDifference(Tail(keys), tplConfig, vmConfig)

\* lines 721-724
SwapGetTplConfig ==
    /\ InSwap("R_GetTplConfig")
    /\ Issue("GetVmConfig", "tpl", EmptyMap)
    /\ \E ok \in BOOLEAN :
          IF ~ok THEN SwapReturn("failed to get template config")
          ELSE swap' = [swap EXCEPT !.pc = "R_GetVmConfig", !.tplConfig = cluster.tplConfig]
    /\ UNCHANGED <<op, pc, d, loc, result, cluster, ctxDone, wait, exec>>

\* lines 725-735: the VM's config, then the compatibility check
SwapGetVmConfig ==
    /\ InSwap("R_GetVmConfig")
    /\ Issue("GetVmConfig", "vm", EmptyMap)
    /\ \E ok \in BOOLEAN :
          LET diff == FirstDifference(CompatKeys, swap.tplConfig, cluster.config)
          IN IF ~ok THEN SwapReturn("failed to get vm config")
             ELSE IF diff # ""
                  THEN swap' = [swap EXCEPT !.pc = "done", !.vmConfig = cluster.config,
                                            !.res = "cannot replace to template, because it has different config " \o diff]
                  ELSE swap' = [swap EXCEPT !.pc = "R_GetNextID", !.vmConfig = cluster.config]
    /\ UNCHANGED <<op, pc, d, loc, result, cluster, ctxDone, wait, exec>>

\* lines 737-740
SwapGetNextID ==
    /\ InSwap("R_GetNextID")
    /\ Issue("GetNextID", "", EmptyMap)
    /\ \E ok \in BOOLEAN :
          IF ~ok THEN SwapReturn("failed to generate vmid")
          ELSE swap' = [swap EXCEPT !.pc = "R_CloneQemuVm"]
    /\ UNCHANGED <<op, pc, d, loc, result, cluster, ctxDone, wait, exec>>

\* lines 742-747
CloneParams(vmName) ==
    [newid |-> AuxId, full |-> TRUE, name |-> vmName \o "-upgrade", target |-> "pve"]

\* the cluster's full clone of the template: its config, with a copy of its disks
ClonedConfig(tplConfig, params) ==
    [k \in DOMAIN tplConfig |->
        IF k = "name" THEN params.name
        ELSE IF k = "scsi0" THEN "local:" \o ToString(params.newid) \o "/vm-disk-0.qcow2"
        ELSE tplConfig[k]]

\* lines 749-759: clone the template, and defer the deletion of the clone
SwapCloneQemuVm ==
    /\ InSwap("R_CloneQemuVm")
    /\ LET params == CloneParams(d.new.name)
       IN /\ Issue("CloneQemuVm", "tpl", params)
          /\ \E ok \in BOOLEAN :
                IF ~ok THEN SwapReturn("failed to clone vm") /\ cluster' = cluster
                ELSE /\ swap' = [swap EXCEPT !.pc = "R_CheckVmRef"]
                     /\ cluster' = [cluster EXCEPT
                                       !.auxExists = TRUE,
                                       !.auxConfig = ClonedConfig(cluster.tplConfig, params)]
    /\ UNCHANGED <<op, pc, d, loc, result, ctxDone, wait, exec>>

\* lines 763-765
SwapCheckVmRef ==
    /\ InSwap("R_CheckVmRef")
    /\ Issue("CheckVmRef", "aux", EmptyMap)
    /\ \E ok \in BOOLEAN :
          IF ~ok THEN SwapExit("failed to refresh newly cloned vm")
          ELSE swap' = [swap EXCEPT !.pc = "R_DetachDisk"]
    /\ UNCHANGED <<op, pc, d, loc, result, cluster, ctxDone, wait, exec>>

\* lines 767-770: detach the VM's boot disk
SwapDetachDisk ==
    /\ InSwap("R_DetachDisk")
    /\ LET params == Put(EmptyMap, "delete", "scsi0")
       IN /\ Issue("SetVmConfig", "vm", params)
          /\ \E ok \in BOOLEAN :
                IF ~ok THEN SwapExit("failed to detach disk") /\ cluster' = cluster
                ELSE /\ swap' = [swap EXCEPT !.pc = "R_MoveDisk"]
                     /\ cluster' = [cluster EXCEPT !.config = ApplyConfig(@, params)]
    /\ UNCHANGED <<op, pc, d, loc, result, ctxDone, wait, exec>>

\* lines 772-776
MoveParams == [disk |-> "scsi0", delete |-> TRUE, targetVmid |-> VmId]

\* the cluster moving a disk of the auxiliary VM to the same slot of the target
MoveDisk(c, params) ==
    [c EXCEPT !.config = Put(@, params.disk, c.auxConfig[params.disk]),
              !.auxConfig = Without(@, {params.disk})]

\* a move that would put the old disk back when it fails
SwapMoveDiskRestores ==
    /\ InSwap("R_MoveDisk")
    /\ \E ok \in BOOLEAN :
          IF ~ok \/ ~Has(cluster.auxConfig, MoveParams.disk)
          THEN /\ SwapExit("failed to replace disk")
               /\ calls' = calls \o <<Call("moveQemuDisk", "aux", MoveParams),
                                       Call("SetVmConfig", "vm",
                                            Put(EmptyMap, "scsi0", swap.vmConfig["scsi0"]))>>
               /\ cluster' = [cluster EXCEPT !.config = Put(@, "scsi0", swap.vmConfig["scsi0"])]
          ELSE /\ swap' = [swap EXCEPT !.pc = "R_RemoveUnused"]
               /\ Issue("moveQemuDisk", "aux", MoveParams)
               /\ cluster' = MoveDisk(cluster, MoveParams)
    /\ UNCHANGED <<op, pc, d, loc, result, ctxDone, wait, exec>>

\* lines 772-779: move the clone's boot disk into the VM
SwapMoveDisk ==
    /\ InSwap("R_MoveDisk")
    /\ Issue("moveQemuDisk", "aux", MoveParams)
    /\ \E ok \in BOOLEAN :
          IF ~ok \/ ~Has(cluster.auxConfig, MoveParams.disk)
          THEN SwapExit("failed to replace disk") /\ cluster' = cluster
          ELSE /\ swap' = [swap EXCEPT !.pc = "R_RemoveUnused"]
               /\ cluster' = MoveDisk(cluster, MoveParams)
    /\ UNCHANGED <<op, pc, d, loc, result, ctxDone, wait, exec>>

\* a propagation that would write every attribute the template has
AttrUpdatesAll(tplConfig, vmConfig) ==
    [n \in {TemplateAttrs[i] : i \in {j \in 1..Len(TemplateAttrs) :
                Has(tplConfig, TemplateAttrs[j])}} |-> tplConfig[n]]

\* lines 787-797: what to copy from the template, and what to delete
AttrUpdates(tplConfig, vmConfig) ==
    [n \in {TemplateAttrs[i] : i \in {j \in 1..Len(TemplateAttrs) :
                /\ Get(tplConfig, TemplateAttrs[j]) # Get(vmConfig, TemplateAttrs[j])
                /\ Has(tplConfig, TemplateAttrs[j])}} |-> tplConfig[n]]

AttrDeletes(tplConfig, vmConfig) ==
    SelectSeq(TemplateAttrs,
              LAMBDA n : Get(tplConfig, n) # Get(vmConfig, n) /\ ~Has(tplConfig, n))

AfterAttrUpdatesPc(tplConfig, vmConfig) ==
    IF Len(AttrDeletes(tplConfig, vmConfig)) > 0 THEN "R_DeleteAttrs" ELSE "R_Deferred"

\* go on to the next step; line 811, return nil, when that is the deferred deletion
SwapGoto(label) ==
    swap' = [swap EXCEPT !.pc = label, !.res = IF label = "R_Deferred" THEN "ok" ELSE @]

\* lines 781-798: remove the placeholder of the detached disk
SwapRemoveUnused ==
    /\ InSwap("R_RemoveUnused")
    /\ LET params == Put(EmptyMap, "delete", "unused0")
       IN /\ Issue("SetVmConfig", "vm", params)
          /\ \E ok \in BOOLEAN :
                IF ~ok THEN SwapExit("failed to remove unused disk") /\ cluster' = cluster
                ELSE /\ SwapGoto(IF DOMAIN AttrUpdates(swap.tplConfig, swap.vmConfig) # {}
                                 THEN "R_UpdateAttrs"
                                 ELSE AfterAttrUpdatesPc(swap.tplConfig, swap.vmConfig))
                     /\ cluster' = [cluster EXCEPT !.config = ApplyConfig(@, params)]
    /\ UNCHANGED <<op, pc, d, loc, result, ctxDone, wait, exec>>

\* lines 798-803
SwapUpdateAttrs ==
    /\ InSwap("R_UpdateAttrs")
    /\ LET params == AttrUpdates(swap.tplConfig, swap.vmConfig)
       IN /\ Issue("SetVmConfig", "vm", params)
          /\ \E ok \in BOOLEAN :
                IF ~ok THEN SwapExit("failed to update vm config") /\ cluster' = cluster
                ELSE /\ SwapGoto(AfterAttrUpdatesPc(swap.tplConfig, swap.vmConfig))
                     /\ cluster' = [cluster EXCEPT !.config = ApplyConfig(@, params)]
    /\ UNCHANGED <<op, pc, d, loc, result, ctxDone, wait, exec>>

\* lines 804-809
SwapDeleteAttrs ==
    /\ InSwap("R_DeleteAttrs")
    /\ LET params == Put(EmptyMap, "delete",
                         Join(AttrDeletes(swap.tplConfig, swap.vmConfig), ","))
       IN /\ Issue("SetVmConfig", "vm", params)
          /\ \E ok \in BOOLEAN :
                IF ~ok THEN SwapExit("failed to delete vm config") /\ cluster' = cluster
                ELSE /\ SwapGoto("R_Deferred")
                     /\ cluster' = [cluster EXCEPT !.config = ApplyConfig(@, params)]
    /\ UNCHANGED <<op, pc, d, loc, result, ctxDone, wait, exec>>

\* a deferred deletion whose error would replace the value returned
SwapDeferredPropagates ==
    /\ InSwap("R_Deferred")
    /\ Issue("DeleteVm", "aux", EmptyMap)
    /\ \E ok \in BOOLEAN :
          /\ cluster' = IF ok THEN [cluster EXCEPT !.auxExists = FALSE, !.auxConfig = EmptyMap]
                        ELSE cluster
          /\ swap' = [swap EXCEPT !.pc = "done",
                                  !.err = IF ok THEN "<nil>" ELSE "failed to delete aux vm",
                                  !.res = IF ok THEN @ ELSE "failed to delete aux vm"]
    /\ UNCHANGED <<op, pc, d, loc, result, ctxDone, wait, exec>>

\* lines 754-759: the deferred _, err = client.DeleteVm(newvmref); the error
\* stays in the local err and is only logged
SwapDeferred ==
    /\ InSwap("R_Deferred")
    /\ Issue("DeleteVm", "aux", EmptyMap)
    /\ \E ok \in BOOLEAN :
          /\ cluster' = IF ok THEN [cluster EXCEPT !.auxExists = FALSE, !.auxConfig = EmptyMap]
                        ELSE cluster
          /\ swap' = [swap EXCEPT !.pc = "done",
                                  !.err = IF ok THEN "<nil>" ELSE "failed to delete aux vm"]
    /\ UNCHANGED <<op, pc, d, loc, result, ctxDone, wait, exec>>

----------------------------------------------------------------------------
(* executeCommandOnNode: one shell command through the terminal proxy *)

\* fmt.Sprintf("vm-%d-cloudinit-user-data", vmref.VmId())
SnippetName(vmid) == "vm-" \o ToString(vmid) \o "-cloudinit-user-data"

\* line 495
RemoveSnippetCommand(vmid) == "rm -f /var/lib/vz/snippets/" \o SnippetName(vmid)

\* base64.StdEncoding.EncodeToString, on the commands the handlers run
Base64(str) ==
    IF str = "rm -f /var/lib/vz/snippets/vm-100-cloudinit-user-data"
    THEN "cm0gLWYgL3Zhci9saWIvdnovc25pcHBldHMvdm0tMTAwLWNsb3VkaW5pdC11c2VyLWRhdGE="
    ELSE IF str = "#cloud-config\n"
    THEN "I2Nsb3VkLWNvbmZpZwo="
    ELSE IF str = "echo \"I2Nsb3VkLWNvbmZpZwo=\" | base64 -d > /var/lib/vz/snippets/vm-100-cloudinit-user-data"
    THEN "ZWNobyAiSTJOc2IzVmtMV052Ym1acFp3bz0iIHwgYmFzZTY0IC1kID4gL3Zhci9saWIvdnovc25pcHBldHMvdm0tMTAwLWNsb3VkaW5pdC11c2VyLWRhdGE="
    ELSE "ZGF0ZSA+IC90bXAvY3VycmVudC1kYXRlLnR4dA=="

\* the byte 0x1b, written as one character
ESC == "^"
InsertBegin == ESC \o "[200~"
InsertEnd == ESC \o "[201~"

\* strconv.FormatInt(rand.Int63(), 36)
Boundaries == {"1y2p0ij32e8e7", "3w5e11264sgsf"}

\* fmt.Sprintf("%q", s) of a string without special characters
Quoted(str) == "\"" \o str \o "\""

\* lines 658-660: the keystroke frame carrying the command line
CommandLine(command, boundry) ==
    InsertBegin \o "echo;echo CMD-BEGIN-" \o boundry \o ";echo " \o Quoted(Base64(command))
        \o " | base64 -d | bash; exit_status=$?; echo CMD-FINISH-" \o boundry
        \o "; echo exit_status=$exit_status; echo CMD-END-" \o boundry \o InsertEnd

CommandFrame(command, boundry) ==
    "0:" \o ToString(Len(CommandLine(command, boundry))) \o ":" \o CommandLine(command, boundry)

\* what termproxy answers: the session user and the ticket
ProxyUser == "root@pam"
ProxyTicket == "PVEVNC:6470A1B2"

TicketLine == ProxyUser \o ":" \o ProxyTicket \o "\n"
ResizeMessage == "1:80:24:"
NewlineFrame == "0:1:\n"

\* the payloads the proxy may answer the ticket with, byte by byte
HandshakeReplies ==
    { <<"O", "K">>, <<"O">>, <<"K", "O">>, <<"O", "K", "\n">>, <<"E", "R", "R">>,
      <<"O", "K", " ", "w", "e", "l", "c", "o", "m", "e", "!">> }

\* b := make([]byte, 10); n, err := c.Read(b); string(b[:n])
ReadBuffer(payload) == SubSeq(payload, 1, IF Len(payload) < 10 THEN Len(payload) ELSE 10)

\* the test done on the first two bytes only
TicketAcceptedByPrefix(payload) ==
    Len(ReadBuffer(payload)) >= 2 /\ SubSeq(ReadBuffer(payload), 1, 2) = <<"O", "K">>

\* line 646
TicketAccepted(payload) == ReadBuffer(payload) = <<"O", "K">>

\* the exit statuses the remote shell reports in the model
ExitCodes == {0, 1, 127}

Marker(word, boundry) == word \o boundry \o "\r\n"
StatusLine(n) == "exit_status=" \o ToString(n) \o "\r\n"

\* the lines the terminal can deliver in a session with the given boundary:
\* the three markers, a marker of another session, status lines, the echo of
\* the typed command line and other output
OutputLines(boundry) ==
    { Marker("CMD-BEGIN-", boundry), Marker("CMD-FINISH-", boundry),
      Marker("CMD-END-", boundry) }
        \cup { Marker("CMD-END-", b) : b \in Boundaries }
        \cup { StatusLine(n) : n \in ExitCodes }
        \cup { "root@pve:~# echo;echo CMD-BEGIN-" \o boundry \o ";echo ...; echo CMD-END-"
                   \o boundry \o "\r\n",
               "Broadcast message from root@pve\r\n" }

\* a scanner that would keep the command's output with the footer
ScanLineKeepsOutput(state, footer, line, boundry) ==
    IF state = "none"
    THEN [state |-> IF line = Marker("CMD-BEGIN-", boundry) THEN "begin" ELSE "none",
          footer |-> footer]
    ELSE IF state = "begin"
    THEN IF line = Marker("CMD-FINISH-", boundry)
         THEN [state |-> "finish", footer |-> footer]
         ELSE [state |-> "begin", footer |-> Append(footer, line)]
    ELSE IF state = "finish"
    THEN IF line = Marker("CMD-END-", boundry)
         THEN [state |-> "end", footer |-> footer]
         ELSE [state |-> "finish", footer |-> Append(footer, line)]
    ELSE [state |-> state, footer |-> footer]

\* a scanner that would stop at the end marker in whatever state it is
ScanLineEndAnywhere(state, footer, line, boundry) ==
    IF line = Marker("CMD-END-", boundry)
    THEN [state |-> "end", footer |-> footer]
    ELSE IF state = "none"
    THEN [state |-> IF line = Marker("CMD-BEGIN-", boundry) THEN "begin" ELSE "none",
          footer |-> footer]
    ELSE IF state = "begin"
    THEN [state |-> IF line = Marker("CMD-FINISH-", boundry) THEN "finish" ELSE "begin",
          footer |-> footer]
    ELSE [state |-> state, footer |-> IF state = "finish" THEN Append(footer, line) ELSE footer]

\* lines 683-704: one step of the scanner
ScanLine(state, footer, line, boundry) ==
    IF state = "none"
    THEN [state |-> IF line = "CMD-BEGIN-" \o boundry \o "\r\n" THEN "begin" ELSE "none",
          footer |-> footer]
    ELSE IF state = "begin"
    THEN [state |-> IF line = "CMD-FINISH-" \o boundry \o "\r\n" THEN "finish" ELSE "begin",
          footer |-> footer]
    ELSE IF state = "finish"
    THEN IF line = "CMD-END-" \o boundry \o "\r\n"
         THEN [state |-> "end", footer |-> footer]
         ELSE [state |-> "finish", footer |-> Append(footer, line)]
    ELSE [state |-> state, footer |-> footer]

\* fmt.Sscanf(footer.String(), "exit_status=%d", &exitStatus): the footer text
\* must start with the literal and a number; -1 stands for the scan error
Sscanf(footer) ==
    IF footer # <<>> /\ \E n \in 0..255 : Head(footer) = StatusLine(n)
    THEN CHOOSE n \in 0..255 : Head(footer) = StatusLine(n)
    ELSE -1

\* lines 707-717
ParseFooter(footer) ==
    LET exitStatus == Sscanf(footer)
    IN IF exitStatus = -1 THEN "exit_status not found in footer"
       ELSE IF exitStatus # 0
            THEN "command failed with exit status " \o ToString(exitStatus)
            ELSE "ok"

InExec(label) == exec.pc = label

\* the call of executeCommandOnNode(session, node, command)
CallExecuteCommandOnNode(command) ==
    exec' = [IdleExec EXCEPT !.pc = "X_Termproxy", !.command = command]

\* return err before the connection exists
ExecReturn(err) == exec' = [exec EXCEPT !.pc = "done", !.res = err]

\* an exit that leaves the connection as it is
ExecExitNoClose(err) == exec' = [exec EXCEPT !.pc = "done", !.res = err]

\* return err once defer c.Close() is registered: Close runs before the caller goes on
ExecExit(err) == exec' = [exec EXCEPT !.pc = "X_Close", !.res = err]

\* a write that would put the message on the wire twice
SentTwice(msg, label) ==
    exec' = [exec EXCEPT !.sent = Append(Append(@, msg), msg), !.pc = label]

\* c.Write(msg) succeeded
Sent(msg, label) == exec' = [exec EXCEPT !.sent = Append(@, msg), !.pc = label]

\* lines 593-596: POST /nodes/{node}/termproxy
ExecTermproxy ==
    /\ InExec("X_Termproxy")
    /\ Issue("termproxy", "pve", EmptyMap)
    /\ \E ok \in BOOLEAN :
          IF ~ok THEN ExecReturn("failed to acquire termproxy ticket")
          ELSE exec' = [exec EXCEPT !.pc = "X_Dial"]
    /\ UNCHANGED <<op, pc, d, loc, result, cluster, ctxDone, wait, swap>>

\* lines 630-634: open the websocket, defer c.Close()
ExecDial ==
    /\ InExec("X_Dial")
    /\ \E ok \in BOOLEAN :
          IF ~ok THEN ExecReturn("failed to create websocket connection")
          ELSE exec' = [exec EXCEPT !.pc = "X_SendTicket", !.open = TRUE]
    /\ UNCHANGED <<op, pc, d, loc, calls, result, cluster, ctxDone, wait, swap>>

\* lines 636-639
ExecSendTicket ==
    /\ InExec("X_SendTicket")
    /\ \E ok \in BOOLEAN :
          IF ~ok THEN ExecExit("failed to send ticket")
          ELSE Sent(TicketLine, "X_ReadReply")
    /\ UNCHANGED <<op, pc, d, loc, calls, result, cluster, ctxDone, wait, swap>>

\* lines 641-648: read the answer to the ticket
ExecReadReply ==
    /\ InExec("X_ReadReply")
    /\ \/ ExecExit("failed to read response")
       \/ \E payload \in HandshakeReplies :
             exec' = [exec EXCEPT !.replied = TRUE,
                                  !.reply = payload,
                                  !.pc = IF TicketAccepted(payload) THEN "X_SendResize"
                                         ELSE "X_Close",
                                  !.res = IF TicketAccepted(payload) THEN @
                                          ELSE "incorrect ticket"]
    /\ UNCHANGED <<op, pc, d, loc, calls, result, cluster, ctxDone, wait, swap>>

\* lines 650-653
ExecSendResize ==
    /\ InExec("X_SendResize")
    /\ \E ok \in BOOLEAN :
          IF ~ok THEN ExecExit("failed to send message")
          ELSE Sent(ResizeMessage, "X_SendCommand")
    /\ UNCHANGED <<op, pc, d, loc, calls, result, cluster, ctxDone, wait, swap>>

\* lines 655-665: draw the boundary, build the command frame and send it
ExecSendCommand ==
    /\ InExec("X_SendCommand")
    /\ \E boundry \in Boundaries, ok \in BOOLEAN :
          IF ~ok THEN ExecExit("failed to send message")
          ELSE exec' = [exec EXCEPT !.sent = Append(@, CommandFrame(exec.command, boundry)),
                                    !.boundry = boundry,
                                    !.pc = "X_SendNewline"]
    /\ UNCHANGED <<op, pc, d, loc, calls, result, cluster, ctxDone, wait, swap>>

\* lines 666-674
ExecSendNewline ==
    /\ InExec("X_SendNewline")
    /\ \E ok \in BOOLEAN :
          IF ~ok THEN ExecExit("failed to send message")
          ELSE Sent(NewlineFrame, "X_ReadLine")
    /\ UNCHANGED <<op, pc, d, loc, calls, result, cluster, ctxDone, wait, swap>>

\* lines 676-717: read one line within 30 s and scan it; after the end marker,
\* parse the footer
ExecReadLine ==
    /\ InExec("X_ReadLine")
    /\ \/ \* the read fails or times out
          ExecExit("failed to read message")
       \/ /\ exec.nread < MaxLines
          /\ \E line \in OutputLines(exec.boundry) :
                LET next == ScanLine(exec.state, exec.footer, line, exec.boundry)
                IN exec' = [exec EXCEPT
                               !.nread = @ + 1,
                               !.last = line,
                               !.state = next.state,
                               !.footer = next.footer,
                               !.pc = IF next.state = "end" THEN "X_Close" ELSE "X_ReadLine",
                               !.res = IF next.state = "end" THEN ParseFooter(next.footer)
                                       ELSE @]
    /\ UNCHANGED <<op, pc, d, loc, calls, result, cluster, ctxDone, wait, swap>>

\* line 634: the deferred c.Close()
ExecClose ==
    /\ InExec("X_Close")
    /\ exec' = [exec EXCEPT !.pc = "done", !.open = FALSE, !.closes = @ + 1]
    /\ UNCHANGED <<op, pc, d, loc, calls, result, cluster, ctxDone, wait, swap>>

----------------------------------------------------------------------------
(* resourceVMDelete *)

\* strings.TrimSpace(cicustom.(string)) != "", on the values a config can hold
CicustomValues == {"", " ", "user=local:snippets/" \o SnippetName(VmId)}

TrimSpace(str) == IF str \in {"", " "} THEN "" ELSE str

\* line 492
HasSnippet(vmConfig) == Has(vmConfig, "cicustom") /\ TrimSpace(vmConfig["cicustom"]) # ""

\* lines 487-496: read the config; remove the snippet when there is one
DeleteGetVmConfig ==
    /\ op = "delete" /\ pc = "D_GetVmConfig"
    /\ Issue("GetVmConfig", "vm", EmptyMap)
    /\ \E ok \in BOOLEAN :
          IF ~ok THEN Return("failed to get vm config") /\ exec' = exec
          ELSE IF HasSnippet(cluster.config)
               THEN /\ CallExecuteCommandOnNode(RemoveSnippetCommand(VmId))
                    /\ pc' = "D_Executed"
                    /\ result' = result
               ELSE pc' = "D_ShutdownVm" /\ result' = result /\ exec' = exec
    /\ UNCHANGED <<op, d, loc, cluster, ctxDone, wait, swap>>

\* Delete giving up when the snippet removal fails
DeleteExecutedStrict ==
    /\ op = "delete" /\ pc = "D_Executed"
    /\ exec.pc = "done"
    /\ loc' = [loc EXCEPT !.snippet = exec.res]
    /\ exec' = IdleExec
    /\ IF exec.res # "ok" THEN Return(exec.res)
       ELSE pc' = "D_ShutdownVm" /\ result' = result
    /\ UNCHANGED <<op, d, calls, cluster, ctxDone, wait, swap>>

\* lines 496-498: executeCommandOnNode has returned; an error is only logged
DeleteExecuted ==
    /\ op = "delete" /\ pc = "D_Executed"
    /\ exec.pc = "done"
    /\ loc' = [loc EXCEPT !.snippet = exec.res]
    /\ exec' = IdleExec
    /\ pc' = "D_ShutdownVm"
    /\ result' = result
    /\ UNCHANGED <<op, d, calls, cluster, ctxDone, wait, swap>>

\* lines 503-508
DeleteShutdownVm ==
    /\ op = "delete" /\ pc = "D_ShutdownVm"
    /\ Issue("ShutdownVm", "vm", EmptyMap)
    /\ \E ok \in BOOLEAN :
          IF ~ok
          THEN Return("failed to stop vm") /\ UNCHANGED <<cluster, wait>>
          ELSE /\ cluster' = AcceptShutdown(cluster)
               /\ CallWaitVMStopped
               /\ pc' = "D_Waited"
               /\ result' = result
    /\ UNCHANGED <<op, d, loc, ctxDone, swap, exec>>

\* a Delete that would destroy the VM whatever the waiter returned
DeleteWaitedAnyway ==
    /\ op = "delete" /\ pc = "D_Waited"
    /\ wait.pc = "done"
    /\ wait' = IdleWait
    /\ pc' = "D_DeleteVm" /\ result' = result
    /\ UNCHANGED <<op, d, loc, calls, cluster, ctxDone, swap, exec>>

\* lines 508-511
DeleteWaited ==
    /\ op = "delete" /\ pc = "D_Waited"
    /\ wait.pc = "done"
    /\ wait' = IdleWait
    /\ IF wait.res # "ok"
       THEN Return("wait vm stopped: " \o wait.res)
       ELSE pc' = "D_DeleteVm" /\ result' = result
    /\ UNCHANGED <<op, d, loc, calls, cluster, ctxDone, swap, exec>>

\* lines 513-519
DeleteDeleteVm ==
    /\ op = "delete" /\ pc = "D_DeleteVm"
    /\ Issue("DeleteVm", "vm", EmptyMap)
    /\ \E ok \in BOOLEAN :
          IF ~ok THEN Return("api error") /\ cluster' = cluster
          ELSE Return("ok") /\ cluster' = [cluster EXCEPT !.exists = FALSE]
    /\ UNCHANGED <<op, d, loc, ctxDone, wait, swap, exec>>

----------------------------------------------------------------------------
(* vmConfigToState and resourceVMCreate *)

\* d.SetId(""): no identifier recorded
NoId == 0

\* lines 293-300: the observed attributes taken from a config
VmConfigToState(vmConfig, state) ==
    [state EXCEPT !.cores = vmConfig["cores"],
                  !.memory = vmConfig["memory"],
                  !.name = vmConfig["name"],
                  !.onboot = IF Has(vmConfig, "onboot") THEN vmConfig["onboot"] = 1 ELSE FALSE]

\* the user_data values of the model; d.GetOk skips the empty one
UserDatas == {"", "#cloud-config\n"}

\* lines 201-203
UploadSnippetCommand(userData, vmid) ==
    "echo " \o Quoted(Base64(userData)) \o " | base64 -d > /var/lib/vz/snippets/"
        \o SnippetName(vmid)

\* a Create that would leave the disks to a later write
CreateUpdatesScalarsOnly(new) ==
    LET u1 == IF new.cores # 0 THEN Put(EmptyMap, "cores", new.cores) ELSE EmptyMap
        u2 == IF new.memory # 0 THEN Put(u1, "memory", new.memory) ELSE u1
    IN IF new.onboot THEN Put(u2, "onboot", new.onboot) ELSE u2

\* lines 173-191: d.GetOk passes a value that is set and not the zero value
CreateUpdates(new) ==
    LET u1 == IF new.cores # 0 THEN Put(EmptyMap, "cores", new.cores) ELSE EmptyMap
        u2 == IF new.memory # 0 THEN Put(u1, "memory", new.memory) ELSE u1
        u3 == IF new.onboot THEN Put(u2, "onboot", new.onboot) ELSE u2
    IN DiskEntries(new.disk) @@ u3

\* lines 155-160
CreateCloneParams(vmName) ==
    [newid |-> VmId, full |-> TRUE, name |-> vmName, target |-> "pve"]

\* where Create goes once the snippet is dealt with (line 210)
AfterSnippetPc(updates) == IF DOMAIN updates # {} THEN "C_CheckVmRef" ELSE "C_GetVmConfig"

\* the lookup taking the first of several references
CreateGetVmRefsByNameFirst ==
    /\ op = "create" /\ pc = "C_GetVmRefsByName"
    /\ Issue("GetVmRefsByName", d.new.template_name, EmptyMap)
    /\ \E ok \in BOOLEAN :
          LET tplrefs == cluster.templates
          IN IF ~ok THEN Return("api error")
             ELSE IF Len(tplrefs) = 0 THEN Return("template not found")
             ELSE IF tplrefs[1].type # "qemu" THEN Return("template is not for qemu vm")
             ELSE pc' = "C_GetNextID" /\ result' = result
    /\ UNCHANGED <<op, d, loc, cluster, ctxDone, wait, swap, exec>>

\* lines 134-148: resolve the template
CreateGetVmRefsByName ==
    /\ op = "create" /\ pc = "C_GetVmRefsByName"
    /\ Issue("GetVmRefsByName", d.new.template_name, EmptyMap)
    /\ \E ok \in BOOLEAN :
          LET tplrefs == cluster.templates
          IN IF ~ok THEN Return("api error")
             ELSE IF Len(tplrefs) = 0 THEN Return("template not found")
             ELSE IF Len(tplrefs) > 1
                  THEN Return("found multiple template with same template_name")
             ELSE IF tplrefs[1].type # "qemu" THEN Return("template is not for qemu vm")
             ELSE pc' = "C_GetNextID" /\ result' = result
    /\ UNCHANGED <<op, d, loc, cluster, ctxDone, wait, swap, exec>>

\* lines 150-153
CreateGetNextID ==
    /\ op = "create" /\ pc = "C_GetNextID"
    /\ Issue("GetNextID", "", EmptyMap)
    /\ \E ok \in BOOLEAN :
          IF ~ok THEN Return("failed to generate vmid")
          ELSE pc' = "C_CloneQemuVm" /\ result' = result
    /\ UNCHANGED <<op, d, loc, cluster, ctxDone, wait, swap, exec>>

\* a Create that would record the id only at its end, and so never on a failure
CreateCloneQemuVmNoId ==
    /\ op = "create" /\ pc = "C_CloneQemuVm"
    /\ LET params == CreateCloneParams(d.new.name)
           updates == CreateUpdates(d.new)
       IN /\ Issue("CloneQemuVm", "tpl", params)
          /\ \E ok \in BOOLEAN :
                IF ~ok
                THEN Return("failed to clone vm") /\ UNCHANGED <<loc, cluster>>
                ELSE /\ cluster' = [cluster EXCEPT
                                       !.exists = TRUE, !.status = "stopped",
                                       !.config = ClonedConfig(cluster.tplConfig, params)]
                     /\ loc' = [loc EXCEPT !.updates = updates]
                     /\ pc' = IF d.new.user_data # "" THEN "C_CheckVmRefSnippet"
                              ELSE AfterSnippetPc(updates)
                     /\ result' = result
    /\ UNCHANGED <<op, d, ctxDone, wait, swap, exec>>

\* lines 162-192: clone the template, record the id, collect the updates
CreateCloneQemuVm ==
    /\ op = "create" /\ pc = "C_CloneQemuVm"
    /\ LET params == CreateCloneParams(d.new.name)
           updates == CreateUpdates(d.new)
       IN /\ Issue("CloneQemuVm", "tpl", params)
          /\ \E ok \in BOOLEAN :
                IF ~ok
                THEN Return("failed to clone vm") /\ UNCHANGED <<d, loc, cluster>>
                ELSE /\ cluster' = [cluster EXCEPT
                                       !.exists = TRUE, !.status = "stopped",
                                       !.config = ClonedConfig(cluster.tplConfig, params)]
                     /\ d' = [d EXCEPT !.id = params.newid]
                     /\ loc' = [loc EXCEPT !.updates = updates]
                     /\ pc' = IF d.new.user_data # "" THEN "C_CheckVmRefSnippet"
                              ELSE AfterSnippetPc(updates)
                     /\ result' = result
    /\ UNCHANGED <<op, ctxDone, wait, swap, exec>>

\* lines 193-205: user_data is written as a snippet file on the node
CreateCheckVmRefSnippet ==
    /\ op = "create" /\ pc = "C_CheckVmRefSnippet"
    /\ Issue("CheckVmRef", "vm", EmptyMap)
    /\ \E ok \in BOOLEAN :
          IF ~ok THEN Return("failed to check vm") /\ exec' = exec
          ELSE /\ CallExecuteCommandOnNode(UploadSnippetCommand(d.new.user_data, d.id))
               /\ pc' = "C_Executed"
               /\ result' = result
    /\ UNCHANGED <<op, d, loc, cluster, ctxDone, wait, swap>>

\* a Create that would only log a failed upload, as Delete does
CreateExecutedLenient ==
    /\ op = "create" /\ pc = "C_Executed"
    /\ exec.pc = "done"
    /\ exec' = IdleExec
    /\ LET updates == Put(loc.updates, "cicustom",
                          "user=local:snippets/" \o SnippetName(d.id))
       IN /\ loc' = [loc EXCEPT !.updates = updates]
          /\ pc' = AfterSnippetPc(updates)
          /\ result' = result
    /\ UNCHANGED <<op, d, calls, cluster, ctxDone, wait, swap>>

\* lines 205-210: executeCommandOnNode has returned
CreateExecuted ==
    /\ op = "create" /\ pc = "C_Executed"
    /\ exec.pc = "done"
    /\ exec' = IdleExec
    /\ IF exec.res # "ok"
       THEN Return("failed to configure user_data: " \o exec.res) /\ loc' = loc
       ELSE LET updates == Put(loc.updates, "cicustom",
                               "user=local:snippets/" \o SnippetName(d.id))
            IN /\ loc' = [loc EXCEPT !.updates = updates]
               /\ pc' = AfterSnippetPc(updates)
               /\ result' = result
    /\ UNCHANGED <<op, d, calls, cluster, ctxDone, wait, swap>>

\* lines 211-213
CreateCheckVmRef ==
    /\ op = "create" /\ pc = "C_CheckVmRef"
    /\ Issue("CheckVmRef", "vm", EmptyMap)
    /\ \E ok \in BOOLEAN :
          IF ~ok THEN Return("failed to check vm")
          ELSE pc' = "C_SetVmConfig" /\ result' = result
    /\ UNCHANGED <<op, d, loc, cluster, ctxDone, wait, swap, exec>>

\* lines 214-217
CreateSetVmConfig ==
    /\ op = "create" /\ pc = "C_SetVmConfig"
    /\ Issue("SetVmConfig", "vm", loc.updates)
    /\ \E ok \in BOOLEAN :
          IF ~ok
          THEN Return("failed to update cpu or memory") /\ cluster' = cluster
          ELSE /\ cluster' = [cluster EXCEPT !.config = ApplyConfig(@, loc.updates)]
               /\ pc' = "C_GetVmConfig"
               /\ result' = result
    /\ UNCHANGED <<op, d, loc, ctxDone, wait, swap, exec>>

\* lines 219-225: read the config back into the state
CreateGetVmConfig ==
    /\ op = "create" /\ pc = "C_GetVmConfig"
    /\ Issue("GetVmConfig", "vm", EmptyMap)
    /\ \E ok \in BOOLEAN :
          IF ~ok THEN Return("failed to get vm config") /\ UNCHANGED <<d, loc>>
          ELSE /\ loc' = [loc EXCEPT !.vmConfig = cluster.config]
               /\ d' = [d EXCEPT !.state = VmConfigToState(cluster.config, @)]
               /\ IF d.new.status = "running"
                  THEN pc' = "C_StartVm" /\ result' = result
                  ELSE Return("ok")
    /\ UNCHANGED <<op, cluster, ctxDone, wait, swap, exec>>

\* lines 227-240: start the VM, and wait for its address when the agent is enabled
CreateStartVm ==
    /\ op = "create" /\ pc = "C_StartVm"
    /\ Issue("StartVm", "vm", EmptyMap)
    /\ \E ok \in BOOLEAN :
          IF ~ok
          THEN Return("failed to start vm") /\ UNCHANGED <<cluster, wait>>
          ELSE /\ cluster' = AcceptStart(cluster)
               /\ IF AgentEnabled(loc.vmConfig)
                  THEN /\ CallWaitVMBootUpGetIP(MaxPolls)
                       /\ pc' = "C_WaitedIP"
                       /\ result' = result
                  ELSE Return("ok") /\ wait' = wait
    /\ UNCHANGED <<op, d, loc, ctxDone, swap, exec>>

\* lines 236-243: waitVMBootUpGetIP has returned
CreateWaitedIP ==
    /\ op = "create" /\ pc = "C_WaitedIP"
    /\ wait.pc = "done"
    /\ wait' = IdleWait
    /\ Return(wait.res)
    /\ UNCHANGED <<op, d, loc, calls, cluster, ctxDone, swap, exec>>

----------------------------------------------------------------------------
(* resourceVMRead *)

\* the existence check with absence returned as an error
ReadCheckVmRefStrict ==
    /\ op = "read" /\ pc = "Rd_CheckVmRef"
    /\ Issue("CheckVmRef", "vm", EmptyMap)
    /\ \E ok \in BOOLEAN :
          IF ~ok THEN Return("api error")
          ELSE IF ~cluster.exists THEN Return("vm '100' not found")
          ELSE pc' = "Rd_GetVmConfig" /\ result' = result
    /\ UNCHANGED <<op, d, loc, cluster, ctxDone, wait, swap, exec>>

\* lines 256-263: the existence check; a VM that is gone clears the id
ReadCheckVmRef ==
    /\ op = "read" /\ pc = "Rd_CheckVmRef"
    /\ Issue("CheckVmRef", "vm", EmptyMap)
    /\ \E ok \in BOOLEAN :
          IF ~ok THEN Return("api error") /\ d' = d
          ELSE IF ~cluster.exists
               THEN \* err.Error() == fmt.Sprintf("vm '%d' not found", vmid)
                    d' = [d EXCEPT !.id = NoId] /\ Return("ok")
               ELSE pc' = "Rd_GetVmConfig" /\ result' = result /\ d' = d
    /\ UNCHANGED <<op, loc, cluster, ctxDone, wait, swap, exec>>

\* lines 265-269
ReadGetVmConfig ==
    /\ op = "read" /\ pc = "Rd_GetVmConfig"
    /\ Issue("GetVmConfig", "vm", EmptyMap)
    /\ \E ok \in BOOLEAN :
          IF ~ok THEN Return("failed to get vm config") /\ UNCHANGED <<d, loc>>
          ELSE /\ loc' = [loc EXCEPT !.vmConfig = cluster.config]
               /\ d' = [d EXCEPT !.state = VmConfigToState(cluster.config, @)]
               /\ pc' = "Rd_GetVmState"
               /\ result' = result
    /\ UNCHANGED <<op, cluster, ctxDone, wait, swap, exec>>

\* the polls that fit into Read's deadline of one second (pollDuration is two)
ReadPolls == 1

\* a Read that would bring a stopped VM back up while reading its power state
ReadGetVmStateStarts ==
    /\ op = "read" /\ pc = "Rd_GetVmState"
    /\ IF cluster.status = "stopped"
       THEN /\ calls' = calls \o <<Call("GetVmState", "vm", EmptyMap),
                                    Call("StartVm", "vm", EmptyMap)>>
            /\ cluster' = [cluster EXCEPT !.status = "running"]
            /\ d' = [d EXCEPT !.state.status = "running"]
            /\ Return("ok") /\ wait' = wait
       ELSE /\ Issue("GetVmState", "vm", EmptyMap)
            /\ cluster' = cluster
            /\ \E ok \in BOOLEAN :
                  IF ~ok THEN Return("failed to get vm status") /\ UNCHANGED <<d, wait>>
                  ELSE /\ d' = [d EXCEPT !.state.status = cluster.status]
                       /\ IF cluster.status = "running" /\ AgentEnabled(loc.vmConfig)
                          THEN /\ CallWaitVMBootUpGetIP(ReadPolls)
                               /\ pc' = "Rd_WaitedIP"
                               /\ result' = result
                          ELSE Return("ok") /\ wait' = wait
    /\ UNCHANGED <<op, loc, ctxDone, swap, exec>>

\* lines 271-287: the power state, then the address refresh
ReadGetVmState ==
    /\ op = "read" /\ pc = "Rd_GetVmState"
    /\ Issue("GetVmState", "vm", EmptyMap)
    /\ \E ok \in BOOLEAN :
          IF ~ok THEN Return("failed to get vm status") /\ UNCHANGED <<d, wait>>
          ELSE /\ d' = [d EXCEPT !.state.status = cluster.status]
               /\ IF cluster.status = "running" /\ AgentEnabled(loc.vmConfig)
                  THEN /\ CallWaitVMBootUpGetIP(ReadPolls)
                       /\ pc' = "Rd_WaitedIP"
                       /\ result' = result
                  ELSE Return("ok") /\ wait' = wait
    /\ UNCHANGED <<op, loc, cluster, ctxDone, swap, exec>>

\* lines 282-289: waitVMBootUpGetIP has returned; its diagnostics are returned
ReadWaitedIP ==
    /\ op = "read" /\ pc = "Rd_WaitedIP"
    /\ wait.pc = "done"
    /\ wait' = IdleWait
    /\ Return(wait.res)
    /\ UNCHANGED <<op, d, loc, calls, cluster, ctxDone, swap, exec>>

\* the framework refreshes the state after a handler that succeeded
Refresh ==
    /\ op \in {"create", "update"} /\ pc = "done" /\ result = "ok"
    /\ op' = "read"
    /\ pc' = "Rd_CheckVmRef"
    /\ result' = "none"
    /\ loc' = [vmConfig |-> EmptyMap]
    /\ UNCHANGED <<d, calls, cluster, ctxDone, wait, swap, exec>>

----------------------------------------------------------------------------
(* Initial states *)

\* an optional config entry: absent when the value is nil
Opt(k, v) == IF v = "<nil>" THEN EmptyMap ELSE (k :> v)

\* the config of the managed VM as the cluster reports it
VmConfig(prior, agent, cicustom, vga, cpu) ==
    [name |-> prior.name, cores |-> prior.cores, memory |-> prior.memory,
     bootdisk |-> "scsi0", scsihw |-> "virtio-scsi-pci", ostype |-> "l26",
     scsi0 |-> "local:" \o ToString(VmId) \o "/vm-disk-0.qcow2"]
        @@ DiskEntries(prior.disk) @@ Opt("agent", agent) @@ Opt("cicustom", cicustom)
        @@ Opt("vga", vga) @@ Opt("cpu", cpu)
        @@ (IF prior.onboot THEN ("onboot" :> 1) ELSE EmptyMap)

\* the config of a VM template
TplConfig(name, bootdisk, scsihw, ostype, vga, cpu) ==
    [name |-> name, cores |-> 1, memory |-> 512, bootdisk |-> bootdisk, ostype |-> ostype,
     scsi0 |-> "local:9000/base-disk-0.qcow2"]
        @@ Opt("scsihw", scsihw) @@ Opt("vga", vga) @@ Opt("cpu", cpu)

QemuRef(vmid) == [vmid |-> vmid, type |-> "qemu"]
LxcRef(vmid) == [vmid |-> vmid, type |-> "lxc"]

\* the prior values of the resource: what the last Read recorded
Prior(disks, status) ==
    [name |-> "vm1", cores |-> 1, memory |-> 512, onboot |-> FALSE,
     template_name |-> "debian-10", status |-> status, disk |-> disks]

Cluster(status, config, templates, tplConfig) ==
    [exists |-> TRUE, status |-> status, shutdownReq |-> FALSE, config |-> config,
     templates |-> templates, tplConfig |-> tplConfig,
     auxExists |-> FALSE, auxConfig |-> EmptyMap]

NoCalls ==
    /\ calls = <<>>
    /\ result = "none"
    /\ ctxDone = FALSE
    /\ wait = IdleWait
    /\ swap = IdleSwap
    /\ exec = IdleExec

DefaultTpl == TplConfig("debian-10", "scsi0", "virtio-scsi-pci", "l26", "<nil>", "<nil>")

\* disk lists of equal content, one per length
PlainDiskLists == {[j \in 1..n |-> [storage |-> "local", size |-> 8]] : n \in 0..MaxDisks}

\* Update with any change of name, cores, memory, onboot, status and disk count
InitUpdateScalars ==
    \E oldDisks \in PlainDiskLists, newDisks \in PlainDiskLists,
       name \in Names, cores \in CoreCounts, memory \in Memories, onboot \in BOOLEAN,
       desired \in Statuses, status \in {"running", "stopped", "paused"},
       agent \in {"<nil>", "enabled=1", "enabled=0"} :
        /\ d = [id |-> VmId, ipv4 |-> "", old |-> Prior(oldDisks, status),
                new |-> [name |-> name, cores |-> cores, memory |-> memory,
                         onboot |-> onboot, template_name |-> "debian-10",
                         status |-> desired, disk |-> newDisks]]
        /\ cluster = Cluster(status,
                             VmConfig(Prior(oldDisks, status), agent, "<nil>", "<nil>", "<nil>"),
                             <<QemuRef(9000)>>, DefaultTpl)

\* Update with any change of the disk list
InitUpdateDisks ==
    \E oldDisks \in DiskLists, newDisks \in DiskLists, cores \in CoreCounts :
        /\ d = [id |-> VmId, ipv4 |-> "", old |-> Prior(oldDisks, "running"),
                new |-> [Prior(newDisks, "running") EXCEPT !.cores = cores]]
        /\ cluster = Cluster("running",
                             VmConfig(Prior(oldDisks, "running"), "<nil>", "<nil>", "<nil>", "<nil>"),
                             <<QemuRef(9000)>>, DefaultTpl)

\* what the lookup of the new template can find, and the configs on both sides
TemplateCases ==
    { [refs |-> r, tpl |-> TplConfig("debian-11", "scsi0", "virtio-scsi-pci", "l26", "<nil>", "<nil>"),
       vga |-> "<nil>", cpu |-> "<nil>"] :
         r \in {<<>>, <<LxcRef(9001)>>, <<QemuRef(9001), QemuRef(9002)>>} }
    \cup
    { [refs |-> <<QemuRef(9001)>>, tpl |-> TplConfig("debian-11", b, h, "l26", "<nil>", "<nil>"),
       vga |-> "<nil>", cpu |-> "<nil>"] :
         b \in {"scsi0", "virtio0"}, h \in {"virtio-scsi-pci", "lsi", "<nil>"} }
    \cup
    { [refs |-> <<QemuRef(9001)>>, tpl |-> TplConfig("debian-11", "scsi0", "virtio-scsi-pci", o, v, c),
       vga |-> vv, cpu |-> vc] :
         o \in {"l26", "win10"}, v \in {"<nil>", "serial0"}, c \in {"<nil>", "host"},
         vv \in {"<nil>", "std"}, vc \in {"<nil>", "host"} }

\* Update with a change of template_name
InitUpdateTemplate ==
    \E case \in TemplateCases, cores \in CoreCounts, desired \in Statuses,
       status \in Statuses, agent \in {"<nil>", "enabled=1"} :
        /\ d = [id |-> VmId, ipv4 |-> "", old |-> Prior(<<>>, status),
                new |-> [Prior(<<>>, desired) EXCEPT !.cores = cores,
                                                      !.template_name = "debian-11"]]
        /\ cluster = Cluster(status,
                             VmConfig(Prior(<<>>, status), agent, "<nil>", case.vga, case.cpu),
                             case.refs, case.tpl)

\* a placeholder a detached disk left behind: an earlier Update whose second
\* write (lines 367-372) failed, or a disk detached by hand
LeftoverDisk == "local:" \o ToString(VmId) \o "/vm-disk-9.qcow2"

\* Update with a change of template_name on a VM that has data disks and
\* may have a leftover placeholder
InitUpdateSwapDisks ==
    \E disks \in PlainDiskLists, leftover \in BOOLEAN, status \in {"running", "stopped"} :
        /\ d = [id |-> VmId, ipv4 |-> "", old |-> Prior(disks, status),
                new |-> [Prior(disks, status) EXCEPT !.template_name = "debian-11"]]
        /\ cluster = Cluster(status,
                             VmConfig(Prior(disks, status), "<nil>", "<nil>", "<nil>", "<nil>")
                                 @@ (IF leftover THEN ("unused0" :> LeftoverDisk) ELSE EmptyMap),
                             <<QemuRef(9001)>>,
                             TplConfig("debian-11", "scsi0", "virtio-scsi-pci", "l26",
                                       "<nil>", "<nil>"))

InitUpdate ==
    /\ op = "update"
    /\ pc = "U_CheckVmRef"
    /\ loc = [updates |-> EmptyMap, shutdownNeeded |-> FALSE, deletes |-> <<>>,
              currentStatus |-> ""]
    /\ NoCalls
    /\ (InitUpdateScalars \/ InitUpdateDisks \/ InitUpdateTemplate \/ InitUpdateSwapDisks)

InitDelete ==
    /\ op = "delete"
    /\ pc = "D_GetVmConfig"
    /\ loc = [snippet |-> "none"]
    /\ NoCalls
    /\ \E status \in {"running", "stopped", "paused"},
          cicustom \in CicustomValues \cup {"<nil>"},
          disks \in PlainDiskLists :
          /\ d = [id |-> VmId, ipv4 |-> "", old |-> Prior(disks, status),
                  new |-> Prior(disks, status)]
          /\ cluster = Cluster(status,
                               VmConfig(Prior(disks, status), "<nil>", cicustom, "<nil>", "<nil>"),
                               <<QemuRef(9000)>>, DefaultTpl)

\* TestExecuteCommandOnNode: the executor on its own
InitExec ==
    /\ op = "exec"
    /\ pc = "X_Call"
    /\ loc = EmptyMap
    /\ calls = <<>> /\ result = "none" /\ ctxDone = FALSE
    /\ wait = IdleWait /\ swap = IdleSwap
    /\ exec = [IdleExec EXCEPT !.pc = "X_Termproxy", !.command = "date > /tmp/current-date.txt"]
    /\ d = [id |-> VmId, ipv4 |-> "", old |-> Prior(<<>>, "running"),
            new |-> Prior(<<>>, "running")]
    /\ cluster = Cluster("running",
                         VmConfig(Prior(<<>>, "running"), "<nil>", "<nil>", "<nil>", "<nil>"),
                         <<QemuRef(9000)>>, DefaultTpl)

\* the attributes d.Set has recorded: nothing yet
ZeroState == [cores |-> 0, memory |-> 0, name |-> "", onboot |-> FALSE, status |-> ""]

\* the onboot entry of a cluster config: absent, 0 or 1
OnbootEntries == {EmptyMap, "onboot" :> 0, "onboot" :> 1}

\* a cluster in which the VM of the resource does not exist
ClusterWithout(templates, tplConfig) ==
    [Cluster("stopped", EmptyMap, templates, tplConfig) EXCEPT !.exists = FALSE]

\* Create with any desired values, against any outcome of the template lookup
InitCreateScalars ==
    \E refs \in {<<>>, <<LxcRef(9000)>>, <<QemuRef(9000), QemuRef(9001)>>, <<QemuRef(9000)>>},
       agent \in {"<nil>", "enabled=1", "enabled=0"}, tplOnboot \in OnbootEntries,
       name \in Names, cores \in CoreCounts, onboot \in BOOLEAN, desired \in Statuses,
       disks \in PlainDiskLists :
        /\ d = [id |-> NoId, ipv4 |-> "", state |-> ZeroState,
                new |-> [name |-> name, cores |-> cores, memory |-> 1024, onboot |-> onboot,
                         template_name |-> "debian-10", status |-> desired, disk |-> disks,
                         user_data |-> ""]]
        /\ cluster = ClusterWithout(refs, DefaultTpl @@ Opt("agent", agent) @@ tplOnboot)

\* Create with user_data
InitCreateUserData ==
    \E desired \in Statuses :
        /\ d = [id |-> NoId, ipv4 |-> "", state |-> ZeroState,
                new |-> [name |-> "vm1", cores |-> 2, memory |-> 1024, onboot |-> FALSE,
                         template_name |-> "debian-10", status |-> desired, disk |-> <<>>,
                         user_data |-> "#cloud-config\n"]]
        /\ cluster = ClusterWithout(<<QemuRef(9000)>>, DefaultTpl)

InitCreate ==
    /\ op = "create"
    /\ pc = "C_GetVmRefsByName"
    /\ loc = [updates |-> EmptyMap, vmConfig |-> EmptyMap]
    /\ NoCalls
    /\ (InitCreateScalars \/ InitCreateUserData)

\* Read of a recorded resource, whatever has become of the VM
InitRead ==
    /\ op = "read"
    /\ pc = "Rd_CheckVmRef"
    /\ loc = [vmConfig |-> EmptyMap]
    /\ NoCalls
    /\ \E exists \in BOOLEAN, status \in Statuses, agent \in AgentValues \cup {"<nil>"},
          onboot \in OnbootEntries, cores \in CoreCounts, ipv4 \in {"", "10.0.0.9"} :
          /\ d = [id |-> VmId, ipv4 |-> ipv4, new |-> Prior(<<>>, "running"),
                  state |-> [cores |-> 1, memory |-> 512, name |-> "vm1", onboot |-> FALSE,
                             status |-> "running"]]
          /\ cluster = [Cluster(status,
                                onboot @@ VmConfig([Prior(<<>>, status) EXCEPT !.cores = cores],
                                                   agent, "<nil>", "<nil>", "<nil>"),
                                <<QemuRef(9000)>>, DefaultTpl)
                        EXCEPT !.exists = exists]

----------------------------------------------------------------------------
(* Specifications *)

WaitStopped == WaitStoppedPoll \/ WaitStoppedSelect \/ GuestPowersOff

WaitIP == IPWaitDeadline \/ IPWaitQuery

ReplaceTemplate ==
    \/ SwapGetTplConfig \/ SwapGetVmConfig \/ SwapGetNextID \/ SwapCloneQemuVm
    \/ SwapCheckVmRef \/ SwapDetachDisk \/ SwapMoveDisk \/ SwapRemoveUnused
    \/ SwapUpdateAttrs \/ SwapDeleteAttrs \/ SwapDeferred

ExecuteCommandOnNode ==
    \/ ExecTermproxy \/ ExecDial \/ ExecSendTicket \/ ExecReadReply \/ ExecSendResize
    \/ ExecSendCommand \/ ExecSendNewline \/ ExecReadLine \/ ExecClose

Update ==
    \/ UpdateCheckVmRef \/ UpdateDetachDisks \/ UpdateRemoveUnused \/ UpdateCheckVmRef2
    \/ UpdateSetVmConfig \/ UpdateGetVmRefsByName \/ UpdateShutdownForSwap
    \/ UpdateWaitedForSwap \/ UpdateReplaced \/ UpdateShutdownVm \/ UpdateWaitedShutdown
    \/ UpdateGetVmState \/ UpdateShutdownStatus \/ UpdateWaitedStatus \/ UpdateStartVm
    \/ UpdateGetVmConfig \/ UpdateWaitedIP

Delete ==
    \/ DeleteGetVmConfig \/ DeleteExecuted \/ DeleteShutdownVm \/ DeleteWaited
    \/ DeleteDeleteVm

NextUpdate == Update \/ WaitStopped \/ WaitIP \/ ReplaceTemplate
SpecUpdate == InitUpdate /\ [][NextUpdate]_vars

NextDelete == Delete \/ WaitStopped \/ ExecuteCommandOnNode
SpecDelete == InitDelete /\ [][NextDelete]_vars

NextExec == ExecuteCommandOnNode
SpecExec == InitExec /\ [][NextExec]_vars

Create ==
    \/ CreateGetVmRefsByName \/ CreateGetNextID \/ CreateCloneQemuVm
    \/ CreateCheckVmRefSnippet \/ CreateExecuted \/ CreateCheckVmRef \/ CreateSetVmConfig
    \/ CreateGetVmConfig \/ CreateStartVm \/ CreateWaitedIP

Read == ReadCheckVmRef \/ ReadGetVmConfig \/ ReadGetVmState \/ ReadWaitedIP

NextCreate == Create \/ WaitIP \/ ExecuteCommandOnNode \/ Refresh \/ Read
SpecCreate == InitCreate /\ [][NextCreate]_vars

NextRead == Read \/ WaitIP
SpecRead == InitRead /\ [][NextRead]_vars

\* the two waiters on their own: any timeout from none to MaxPolls poll
\* intervals, a caller's context that may already be done, a VM in any power
\* state with or without a shutdown under way
InitWait ==
    /\ op = "wait"
    /\ pc = "W_Call"
    /\ loc = EmptyMap
    /\ calls = <<>> /\ result = "none"
    /\ swap = IdleSwap /\ exec = IdleExec
    /\ ctxDone \in BOOLEAN
    /\ \E timeout \in 0..MaxPolls :
          wait \in {WaitVMStoppedFrame(timeout), WaitVMBootUpGetIPFrame(timeout)}
    /\ \E ipv4 \in {"", "10.0.0.9"} :
          d = [id |-> VmId, ipv4 |-> ipv4, old |-> Prior(<<>>, "running"),
               new |-> Prior(<<>>, "running")]
    /\ \E status \in {"running", "stopped", "paused"}, shutdownReq \in BOOLEAN :
          /\ shutdownReq => status = "running"
          /\ cluster = [Cluster(status,
                                VmConfig(Prior(<<>>, status), "enabled=1", "<nil>", "<nil>",
                                         "<nil>"),
                                <<QemuRef(9000)>>, DefaultTpl)
                          EXCEPT !.shutdownReq = shutdownReq]

\* the waiter has returned to its caller
WaiterReturned ==
    /\ op = "wait" /\ pc = "W_Call"
    /\ wait.pc = "done"
    /\ Return(wait.res)
    /\ UNCHANGED <<op, d, loc, calls, cluster, ctxDone, wait, swap, exec>>

NextWait == WaitStopped \/ WaitIP \/ WaiterReturned
SpecWait == InitWait /\ [][NextWait]_vars

\* the waiters are loops of one goroutine that nothing suspends, and every
\* cluster call returns: a step that can be taken is taken
SpecWaitFair == SpecWait /\ WF_vars(NextWait)

Init == InitUpdate \/ InitDelete \/ InitExec \/ InitCreate \/ InitRead \/ InitWait
Next == NextUpdate \/ NextDelete \/ NextExec \/ NextCreate \/ NextRead \/ NextWait
Spec == Init /\ [][Next]_vars

----------------------------------------------------------------------------
(* Properties *)

\* the logged calls that satisfy a test, in order
Select(Test(_)) == SelectSeq(calls, Test)

Count(name, vm) == Len(Select(LAMBDA c : c.call = name /\ c.vm = vm))

Issued(name, vm) == Count(name, vm) > 0

\* position of the first call of a name in the log, 0 when there is none
First(name, vm) ==
    IF Issued(name, vm)
    THEN CHOOSE i \in 1..Len(calls) :
            /\ calls[i].call = name /\ calls[i].vm = vm
            /\ \A j \in 1..(i - 1) : ~(calls[j].call = name /\ calls[j].vm = vm)
    ELSE 0

IsConfigWrite(c) == c.call = "SetVmConfig" /\ c.vm = "vm"
IsDeleteWrite(c) == IsConfigWrite(c) /\ Has(c.params, "delete")
IsAttachWrite(c) ==
    /\ IsConfigWrite(c)
    /\ \E j \in 0..(MaxDisks + 1) : Has(c.params, "scsi" \o ToString(j))

DeleteWrites == Select(IsDeleteWrite)

\* the disk entries of a parameter map
DiskPart(params) ==
    [k \in {x \in DOMAIN params : \E j \in 0..(MaxDisks + 1) : x = "scsi" \o ToString(j)} |->
        params[k]]

\* the plan of Update has been made: the first existence check succeeded
Planned ==
    /\ op = "update"
    /\ pc # "U_CheckVmRef"
    /\ ~(pc = "done" /\ Len(calls) = 1)

OldLen == Len(d.old.disk)
NewLen == Len(d.new.disk)

DiskChangeOnly == op = "update" /\ HasChange("disk") /\ ~HasChange("template_name")

\* the attach entries the growing case asks for: slot j for the desired disk j
ExpectedAttach ==
    [k \in {"scsi" \o ToString(j) : j \in (OldLen + 1)..NewLen} |->
        LET j == CHOOSE i \in (OldLen + 1)..NewLen : k = "scsi" \o ToString(i)
        IN d.new.disk[j].storage \o ":" \o ToString(d.new.disk[j].size) \o ",format=qcow2"]

GrowingCaseHolds ==
    /\ DiskPart(loc.updates) = ExpectedAttach
    /\ Cardinality(DOMAIN DiskPart(loc.updates)) = NewLen - OldLen
    /\ Len(DeleteWrites) = 0
    /\ \A i \in 1..Len(calls) :
          IsConfigWrite(calls[i]) => DiskPart(calls[i].params) = ExpectedAttach

\* C1: when the desired disk list is at least as long as the current one and
\* the change is seen by Update, the plan holds exactly |D2|-|D1| attach
\* entries, at scsi<|D1|+1> .. scsi<|D2|>, each with the storage and size of
\* the desired disk at that index, and no config write carries a delete list.
C1_GrowingCase ==
    (DiskChangeOnly /\ Planned /\ NewLen >= OldLen) => GrowingCaseHolds

\* C1, the part the code keeps: the same statement for a list that grew
C1_StrictlyGrowing ==
    (DiskChangeOnly /\ Planned /\ NewLen > OldLen) => GrowingCaseHolds

C1_Witness ==
    /\ DiskChangeOnly /\ NewLen = OldLen + 2
    /\ result = "ok"
    /\ \E i \in 1..Len(calls) : IsAttachWrite(calls[i])

\* the delete lists the shrinking case asks for
ExpectedDetach == Join([j \in 1..(OldLen - NewLen) |-> "scsi" \o ToString(NewLen + j)], ",")
ExpectedUnused == Join([j \in 1..(OldLen - NewLen) |-> "unused" \o ToString(j - 1)], ",")

\* Update is past its disk step
PastDisks ==
    /\ Planned
    /\ pc \notin {"U_DetachDisks", "U_RemoveUnused"}
    /\ result \notin {"failed to delete disk", "failed to delete ununsed disk"}

\* C2: when the desired disk list is shorter, Update issues exactly one config
\* write deleting scsi<|D2|+1> .. scsi<|D1|>, then exactly one config write
\* deleting unused0 .. unused<|D1|-|D2|-1>, the second only after the first
\* succeeded (the cluster has detached the slots), and no attach entry.
C2_ShrinkingCase ==
    (DiskChangeOnly /\ Planned /\ NewLen < OldLen) =>
        /\ Len(DeleteWrites) <= 2
        /\ Len(DeleteWrites) >= 1 =>
              /\ DeleteWrites[1].params = ("delete" :> ExpectedDetach)
              /\ calls[2] = DeleteWrites[1]
        /\ Len(DeleteWrites) = 2 =>
              /\ DeleteWrites[2].params = ("delete" :> ExpectedUnused)
              /\ calls[3] = DeleteWrites[2]
              /\ \A j \in (NewLen + 1)..OldLen : ~Has(cluster.config, "scsi" \o ToString(j))
        /\ pc = "U_RemoveUnused" => Len(DeleteWrites) = 1
        /\ PastDisks => Len(DeleteWrites) = 2
        /\ result = "failed to delete disk" => Len(DeleteWrites) = 1
        /\ DiskPart(loc.updates) = EmptyMap
        /\ \A i \in 1..Len(calls) : ~IsAttachWrite(calls[i])

C2_Witness ==
    /\ DiskChangeOnly /\ NewLen + 2 = OldLen
    /\ result = "ok"
    /\ Len(DeleteWrites) = 2

\* C3: when the old and the new disk list have the same length and different
\* content, Update sends nothing for disks: no attach entry, no detach write
\* and no placeholder-removal write.
C3_EqualLengthNoWrites ==
    (DiskChangeOnly /\ Planned /\ NewLen = OldLen) =>
        /\ Len(DeleteWrites) = 0
        /\ DiskPart(loc.updates) = EmptyMap

\* the calls replaceTemplate has issued: the log from its first call on
SwapCalls ==
    IF Issued("GetVmConfig", "tpl")
    THEN SubSeq(calls, First("GetVmConfig", "tpl"), Len(calls))
    ELSE <<>>

SwapIssued(name) == \E i \in 1..Len(SwapCalls) : SwapCalls[i].call = name

\* template and VM disagree on the boot disk or on the SCSI controller
Incompatible ==
    \/ Get(cluster.tplConfig, "bootdisk") # Get(cluster.config, "bootdisk")
    \/ Get(cluster.tplConfig, "scsihw") # Get(cluster.config, "scsihw")

IncompatibleErrors ==
    {"cannot replace to template, because it has different config " \o n :
        n \in {"bootdisk", "scsihw"}}

\* replaceTemplate has read both configs
SwapPastCheck ==
    /\ swap.pc \notin {"idle", "R_GetTplConfig", "R_GetVmConfig"}
    /\ swap.res \notin {"failed to get template config", "failed to get vm config"}

\* C4: when template and VM differ on bootdisk or scsihw, replaceTemplate
\* fails with the incompatibility error, and it has issued no id allocation,
\* no clone, no disk move, no config write and no VM deletion: its only calls
\* are the two config reads.
C4_SwapRefusal ==
    (op = "update" /\ Incompatible) =>
        /\ SwapPastCheck => (swap.pc = "done" /\ swap.res \in IncompatibleErrors)
        /\ \A i \in 1..Len(SwapCalls) : SwapCalls[i].call = "GetVmConfig"
        /\ Len(SwapCalls) <= 2
        /\ ~Issued("GetNextID", "") /\ ~Issued("CloneQemuVm", "tpl")
        /\ ~Issued("moveQemuDisk", "aux") /\ ~Issued("DeleteVm", "aux")
        /\ ~cluster.auxExists

C4_Witness ==
    /\ op = "update" /\ Incompatible
    /\ ~Has(cluster.tplConfig, "scsihw")
    /\ pc = "done"
    /\ result = "failed to replace template: cannot replace to template, because it has different config scsihw"

\* the clone of the auxiliary VM succeeded
CloneSucceeded == Issued("CloneQemuVm", "tpl") /\ swap.res # "failed to clone vm"

\* C5: once the auxiliary VM is cloned, every exit of replaceTemplate requests
\* its deletion exactly once, as the last call of the swap; the deletion is
\* not requested while a step is still to run, and not at all when the clone
\* failed.
C5_SwapCleanup ==
    /\ Count("DeleteVm", "aux") <= 1
    /\ swap.pc \notin {"idle", "done"} => Count("DeleteVm", "aux") = 0
    /\ swap.pc = "done" =>
          IF CloneSucceeded
          THEN /\ Count("DeleteVm", "aux") = 1
               /\ calls[Len(calls)] = Call("DeleteVm", "aux", EmptyMap)
          ELSE Count("DeleteVm", "aux") = 0
    /\ (op = "update" /\ pc = "done" /\ Issued("CloneQemuVm", "tpl")
          /\ result # "failed to replace template: failed to clone vm")
            => Count("DeleteVm", "aux") = 1

C5_Witness ==
    /\ swap.pc = "done"
    /\ swap.res = "failed to replace disk"
    /\ Count("DeleteVm", "aux") = 1
    /\ Issued("moveQemuDisk", "aux")

\* the lines of the footer that are status lines, as exit statuses
FooterCodes == {n \in 0..255 : \E i \in 1..Len(exec.footer) : exec.footer[i] = StatusLine(n)}

\* the scan has read the end marker, so the footer has been parsed
Parsed == exec.state = "end" /\ exec.pc \in {"X_Close", "done"}

\* C6: a footer carrying exit_status=0 gives no error, a footer carrying
\* exit_status=N with N # 0 gives the command-failed error carrying N, and a
\* footer with no exit_status line gives the exit-status-not-found error.
C6_ExitStatus ==
    Parsed =>
        /\ FooterCodes = {} => exec.res = "exit_status not found in footer"
        /\ FooterCodes = {0} => exec.res = "ok"
        /\ \A n \in 1..255 :
              FooterCodes = {n} => exec.res = "command failed with exit status " \o ToString(n)

\* C6, the part the code keeps: the same statement for a footer whose first
\* line is the status line
C6_StatusLineFirst ==
    Parsed =>
        /\ FooterCodes = {} => exec.res = "exit_status not found in footer"
        /\ (exec.footer # <<>> /\ exec.footer[1] = StatusLine(0)) => exec.res = "ok"
        /\ \A n \in 1..255 :
              (exec.footer # <<>> /\ exec.footer[1] = StatusLine(n))
                  => exec.res = "command failed with exit status " \o ToString(n)

\* C7: the ticket is accepted exactly when the first read returns the two
\* bytes "OK"; any other payload fails the call with the ticket error, and
\* then nothing but the ticket line has been sent: no resize message, no
\* command frame, no newline frame.
C7_TicketHandshake ==
    exec.replied =>
        /\ (exec.res = "incorrect ticket") <=> (exec.reply # <<"O", "K">>)
        /\ exec.reply # <<"O", "K">> =>
              /\ exec.sent = <<TicketLine>>
              /\ exec.pc \in {"X_Close", "done"}
        /\ Len(exec.sent) > 1 => exec.reply = <<"O", "K">>

C7_Witness ==
    /\ exec.pc = "done"
    /\ exec.reply = <<"O", "K", "\n">>
    /\ exec.res = "incorrect ticket"
    /\ exec.sent = <<TicketLine>>

\* Update changes cores and/or memory and nothing else, on a running VM that
\* is to stay running
ScenarioB ==
    /\ op = "update"
    /\ HasChange("cores") \/ HasChange("memory")
    /\ \A k \in {"name", "onboot", "disk", "template_name"} : ~HasChange(k)
    /\ d.old.status = "running" /\ d.new.status = "running"

StageB(c) ==
    CASE c.call = "CheckVmRef" -> 1
      [] c.call = "SetVmConfig" -> 2
      [] c.call = "ShutdownVm" -> 3
      [] c.call = "GetVmState" -> 4
      [] c.call = "StartVm" -> 5
      [] c.call = "GetVmConfig" -> 6
      [] c.call = "GetVmAgentNetworkInterfaces" -> 7
      [] OTHER -> 0

\* the config entries scenario B has to write
ExpectedResize ==
    [k \in {x \in {"cores", "memory"} : d.old[x] # d.new[x]} |-> d.new[k]]

\* C8: scenario B issues its calls in the order config write, shutdown,
\* wait-stopped polls, start, then the agent queries when the agent is
\* enabled; shutdown and start are issued once each, and on success the
\* cluster holds the new cores and memory and the VM is running.
C8_ScenarioB ==
    ScenarioB =>
        /\ \A i \in 1..Len(calls) : calls[i].vm = "vm" /\ StageB(calls[i]) > 0
        /\ \A i \in 1..Len(calls), j \in 1..Len(calls) :
              i < j => StageB(calls[i]) <= StageB(calls[j])
        /\ Count("SetVmConfig", "vm") <= 1
        /\ Count("ShutdownVm", "vm") <= 1
        /\ Count("StartVm", "vm") <= 1
        /\ \A i \in 1..Len(calls) : IsConfigWrite(calls[i]) => calls[i].params = ExpectedResize
        /\ result = "ok" =>
              /\ Count("SetVmConfig", "vm") = 1
              /\ Count("ShutdownVm", "vm") = 1
              /\ Count("GetVmState", "vm") >= 2
              /\ Count("StartVm", "vm") = 1
              /\ cluster.config["cores"] = d.new.cores
              /\ cluster.config["memory"] = d.new.memory
              /\ cluster.status = "running"
              /\ AgentEnabled(cluster.config) <=> Issued("GetVmAgentNetworkInterfaces", "vm")

C8_Witness ==
    /\ ScenarioB /\ HasChange("cores")
    /\ result = "ok"
    /\ Issued("GetVmAgentNetworkInterfaces", "vm")
    /\ cluster.config["cores"] = 2

\* Update changes the desired status from running to stopped and nothing else
ScenarioC ==
    /\ op = "update"
    /\ \A k \in {"name", "cores", "memory", "onboot", "disk", "template_name"} : ~HasChange(k)
    /\ d.old.status = "running" /\ d.new.status = "stopped"

\* C9: scenario C issues the shutdown request and then only the polls of
\* wait-stopped: no config write, no start and no agent query; the reads
\* before the shutdown are the existence check and the power state.
C9_ScenarioC ==
    ScenarioC =>
        /\ \A i \in 1..Len(calls) :
              /\ calls[i].vm = "vm"
              /\ calls[i].call = (IF i = 1 THEN "CheckVmRef"
                                  ELSE IF i = 3 THEN "ShutdownVm"
                                  ELSE "GetVmState")
        /\ result = "ok" =>
              /\ Count("ShutdownVm", "vm") = 1
              /\ Len(calls) >= 4
              /\ cluster.status = "stopped"

C9_Witness ==
    /\ ScenarioC
    /\ result = "ok"
    /\ Len(calls) > 4

\* the errors executeCommandOnNode can return
ExecErrors ==
    { "failed to acquire termproxy ticket", "failed to create websocket connection",
      "failed to send ticket", "failed to read response", "incorrect ticket",
      "failed to send message", "failed to read message", "exit_status not found in footer" }
        \cup {"command failed with exit status " \o ToString(n) : n \in 1..255}

\* Delete has read a config with a non-blank cicustom
ScenarioD ==
    /\ op = "delete"
    /\ Has(cluster.config, "cicustom")
    /\ cluster.config["cicustom"] \notin {"", " "}
    /\ Issued("GetVmConfig", "vm")
    /\ result # "failed to get vm config"

\* a poll of the power state follows the shutdown request
PolledAfterShutdown ==
    \E i \in 1..Len(calls) : calls[i].call = "GetVmState" /\ First("ShutdownVm", "vm") < i

\* C10: with a non-blank cicustom, Delete attempts the snippet removal before
\* the shutdown request; whatever the removal returns, Delete goes on to the
\* shutdown, waits for the VM to stop and destroys it (each step provided the
\* one before succeeded), and what Delete returns is never the removal's error.
C10_ScenarioD ==
    ScenarioD =>
        /\ exec.pc = "X_Termproxy" \/ Issued("termproxy", "pve")
        /\ pc # "D_Executed" => Issued("termproxy", "pve")
        /\ Issued("ShutdownVm", "vm") =>
              /\ First("termproxy", "pve") < First("ShutdownVm", "vm")
              /\ loc.snippet \in ExecErrors \cup {"ok"}
        /\ result \notin ExecErrors
        /\ pc = "done" =>
              /\ Count("ShutdownVm", "vm") = 1
              /\ result # "failed to stop vm" => PolledAfterShutdown
              /\ result \in {"ok", "api error"} <=> Issued("DeleteVm", "vm")
              /\ Issued("DeleteVm", "vm") =>
                    /\ calls[Len(calls)].call = "DeleteVm"
                    /\ Count("DeleteVm", "vm") = 1
              /\ result = "ok" => ~cluster.exists

C10_Witness ==
    /\ ScenarioD
    /\ pc = "done" /\ result = "ok"
    /\ loc.snippet = "command failed with exit status 1"
    /\ ~cluster.exists

----------------------------------------------------------------------------
(* C11: idempotence of the reconciliation pass *)

\* the cluster calls that change the cluster
MutatingCalls == {"SetVmConfig", "ShutdownVm", "StartVm", "CloneQemuVm", "moveQemuDisk", "DeleteVm"}

Mutations == Select(LAMBDA c : c.call \in MutatingCalls)

\* Update has nothing to reconcile: every desired value equals the recorded
\* one, and the VM has the power status the resource records and desires
NothingToDo ==
    /\ op = "update"
    /\ d.old = d.new
    /\ cluster.status = d.new.status

\* C11: an Update whose desired values equal the recorded ones, on a VM whose
\* power status is the desired one, issues no config write, no shutdown, no
\* start, no clone, no disk move and no deletion
C11_Idempotence == NothingToDo => Mutations = <<>>

\* such an Update has run to its end and returned success
C11_Witness == NothingToDo /\ pc = "done" /\ result = "ok" /\ Issued("GetVmState", "vm")

----------------------------------------------------------------------------
(* C12: Create waits for the address of the primary NIC *)

\* Create of a VM that is to run and whose config enables the guest agent
\* has returned success
CreatedRunningWithAgent ==
    /\ op = "create" /\ pc = "done" /\ result = "ok"
    /\ d.new.status = "running"
    /\ AgentEnabled(loc.vmConfig)

\* C12: when Create of a running, agent-enabled VM returns success, the
\* ipv4_address attribute holds an IPv4 address
C12_CreateObservesIP == CreatedRunningWithAgent => d.ipv4 # ""

\* what the code does guarantee: success comes only after the agent has
\* answered the interface query
C12_AgentAnswered ==
    CreatedRunningWithAgent => Issued("GetVmAgentNetworkInterfaces", "vm")

----------------------------------------------------------------------------
(* C13: Read of a VM that is gone *)

\* Read has returned
ReadDone == op = "read" /\ pc = "done"

\* C13: Read of a VM that no longer exists clears the recorded id and returns
\* no error, having made the existence check and nothing else; an existence
\* check that fails otherwise is returned as the error with the id kept, and
\* the id is never cleared for a VM that exists
C13_ReadAbsent ==
    /\ (ReadDone /\ ~cluster.exists) =>
          /\ result \in {"ok", "api error"}
          /\ Count("CheckVmRef", "vm") = Len(calls)
          /\ result = "ok" => d.id = NoId
    /\ (ReadDone /\ result # "ok") => d.id = VmId
    /\ (op = "read" /\ cluster.exists) => d.id = VmId

\* Read has reported the absence of the VM
C13_Witness == ReadDone /\ ~cluster.exists /\ result = "ok" /\ d.id = NoId

----------------------------------------------------------------------------
(* C14: the address refresh of Read *)

\* Read has returned after at least one query of the guest agent
ReadRefreshed == ReadDone /\ Issued("GetVmAgentNetworkInterfaces", "vm")

\* C14: a Read that tried to refresh the address returns success, whether
\* the agent query succeeded, failed or ran out of time
C14_RefreshNonFatal == ReadRefreshed => result = "ok"

\* what the code does guarantee: a refresh that fails leaves the recorded
\* address as it was
C14_AddressKept ==
    [][(wait'.pc = "done" /\ wait'.res # "ok") => d'.ipv4 = d.ipv4]_vars

----------------------------------------------------------------------------
(* C15: structural preconditions *)

\* the errors of the template lookup
LookupErrors ==
    {"template not found", "found multiple template with same template_name",
     "template is not for qemu vm"}

\* a handler has returned the failure of a structural precondition
PreconditionFailed ==
    /\ pc = "done"
    /\ \/ result \in LookupErrors
       \/ result \in {"failed to replace template: " \o e : e \in IncompatibleErrors}

\* C15: an Update (or Create) that fails a structural precondition has issued
\* no config write, disk detach, shutdown, clone, move or deletion
C15_NoPartialMutation == PreconditionFailed => Mutations = <<>>

----------------------------------------------------------------------------
(* C16: the template resolution of Create *)

\* the lookup of Create has returned a list of references
LookupAnswered == op = "create" /\ pc # "C_GetVmRefsByName" /\ result # "api error"

\* C16: Create fails with template-not-found exactly when the lookup returns
\* no reference, with the ambiguity error exactly when it returns several, and
\* with the wrong-type error when the single reference is not a qemu VM; in
\* these cases no id is allocated, nothing is cloned and no id is recorded
C16_CreateResolution ==
    LookupAnswered =>
        /\ (Len(cluster.templates) = 0) <=> (result = "template not found")
        /\ (Len(cluster.templates) > 1)
              <=> (result = "found multiple template with same template_name")
        /\ (Len(cluster.templates) = 1 /\ cluster.templates[1].type # "qemu")
              => (result = "template is not for qemu vm")
        /\ result \in LookupErrors =>
              /\ pc = "done"
              /\ d.id = NoId
              /\ ~Issued("GetNextID", "")
              /\ ~Issued("CloneQemuVm", "tpl")
              /\ Len(calls) = 1

\* Create has refused an ambiguous template name
C16_Witness ==
    /\ LookupAnswered
    /\ Len(cluster.templates) > 1
    /\ result = "found multiple template with same template_name"
    /\ d.id = NoId

----------------------------------------------------------------------------
(* C17: one shutdown and one start per Update *)

\* C17: whatever combination of cores, memory, template name and desired
\* status an Update changes, it requests the shutdown at most once and the
\* start at most once; after a template swap no second shutdown follows
C17_SingleRestart ==
    op = "update" =>
        /\ Count("ShutdownVm", "vm") <= 1
        /\ Count("StartVm", "vm") <= 1
        /\ (HasChange("template_name") /\ pc \in {"U_ShutdownVm", "U_WaitedShutdown"})
              => ~Issued("ShutdownVm", "vm")

\* an Update that changed cores and the template has shut the VM down once,
\* swapped the template, started the VM once and returned success
C17_Witness ==
    /\ op = "update" /\ pc = "done" /\ result = "ok"
    /\ HasChange("cores") /\ HasChange("template_name")
    /\ SwapIssued("moveQemuDisk")
    /\ Count("ShutdownVm", "vm") = 1
    /\ Count("StartVm", "vm") = 1

----------------------------------------------------------------------------
(* C18: convergence of the observed attributes *)

\* a Read that followed a successful Create has returned success
ReadAfterCreate ==
    /\ ReadDone /\ result = "ok" /\ d.id # NoId
    /\ Issued("CloneQemuVm", "tpl")

\* the observed attributes equal the desired ones
Converged ==
    /\ d.state.cores = d.new.cores
    /\ d.state.memory = d.new.memory
    /\ d.state.name = d.new.name
    /\ d.state.onboot = d.new.onboot

\* C18: after a successful Create followed by Read the observed cores,
\* memory, name and onboot equal the desired values, and onboot is observed
\* as false when the cluster config has no onboot entry or has 0
C18_Convergence ==
    ReadAfterCreate =>
        /\ Converged
        /\ (~Has(cluster.config, "onboot") \/ cluster.config["onboot"] = 0)
              => ~d.state.onboot

\* the template the VM was cloned from has onboot on
InheritsOnboot == Has(cluster.tplConfig, "onboot") /\ cluster.tplConfig["onboot"] = 1

\* what the code does guarantee: the attributes converge unless the VM is to
\* have onboot off and the template it was cloned from has onboot on
C18_ConvergesUnlessInherited ==
    (ReadAfterCreate /\ ~(~d.new.onboot /\ InheritsOnboot)) => Converged

----------------------------------------------------------------------------
(* C19: lifecycle of the command session *)

\* the errors the executor returns before a websocket exists
PreDialErrors == {"failed to acquire termproxy ticket", "failed to create websocket connection"}

\* C19: once the websocket is open it is closed exactly once on every exit
\* path of the executor, and no exit leaves it open; an executor that never
\* opened it closes nothing
C19_SessionClosed ==
    /\ exec.closes <= 1
    /\ exec.open => exec.closes = 0
    /\ exec.pc = "done" =>
          /\ ~exec.open
          /\ (exec.closes = 1) <=> (exec.res \notin PreDialErrors)

\* the executor has returned a failure of a frame write, with the websocket
\* closed once
C19_Witness ==
    /\ exec.pc = "done"
    /\ exec.res = "failed to send message"
    /\ Len(exec.sent) = 2
    /\ exec.closes = 1
    /\ ~exec.open

----------------------------------------------------------------------------
(* C20: cancellation of the waiters *)

\* the errors a waiter returns for the caller's cancellation or deadline
CancellationErrors == {"context canceled", "context deadline exceeded"}

\* C20: once the caller's context is done no waiter goes on polling, and a
\* waiter that has stopped for it returns a cancellation error
C20_WaitersCancellable ==
    ctxDone =>
        /\ wait.pc \notin {"poll", "select"}
        /\ wait.pc = "done" => wait.res \in CancellationErrors

\* what the code does guarantee: waitVMStopped stops at the caller's
\* cancellation and returns the context's error
C20_StateWaiterCancellable ==
    (ctxDone /\ wait.fn = "waitVMStopped") =>
        /\ wait.pc = "done"
        /\ wait.res = "context canceled"

----------------------------------------------------------------------------
(* Check-then-act, the waiters, the output scanner, the template swap *)

\* the calls that change the managed VM: config write, start, shutdown, destroy
VmMutations == {"SetVmConfig", "StartVm", "ShutdownVm", "DeleteVm"}

\* the call at position i changes the managed VM
MutatesVm(i) == calls[i].vm = "vm" /\ calls[i].call \in VmMutations

\* an existence check of the managed VM was issued before position i; the
\* handlers return when it fails, so a later call means it succeeded
CheckedBefore(i) ==
    \E j \in 1..(i - 1) : calls[j].call = "CheckVmRef" /\ calls[j].vm = "vm"

\* C21: in Create, Update and Delete every mutating call on the managed VM
\* (config write, start, shutdown, destroy) comes after an existence check
\* (CheckVmRef) of that VM in the same operation.
C21_CheckThenAct ==
    \A i \in 1..Len(calls) : MutatesVm(i) => CheckedBefore(i)

\* Delete has shut the VM down without any CheckVmRef in the operation
C21_DeleteUnchecked ==
    /\ op = "delete"
    /\ Issued("ShutdownVm", "vm")
    /\ ~Issued("CheckVmRef", "vm")

\* C21 for Create and Update alone: there the check does come first
C21_CreateUpdateChecked ==
    op \in {"create", "update"} => C21_CheckThenAct

\* what Delete does know before it acts: the VM's configuration was read
C21_DeleteReadsConfigFirst ==
    op = "delete" =>
        \A i \in 1..Len(calls) :
            MutatesVm(i) => \E j \in 1..(i - 1) : calls[j].call = "GetVmConfig"

\* the status polls of the state waiter
StatePolls == Count("GetVmState", "vm")

\* the error of the waiter's context: its own deadline, or the caller's end
ContextErrors == {"context canceled", "context deadline exceeded"}

\* C22: waitVMStopped returns success only when a poll of its own has just
\* seen status "stopped"; its other results are the poll's error and the
\* error of its context; whatever it returns, it has polled at least once,
\* and it never polls again after a result.
C22_StateWaiter ==
    (wait.fn = "waitVMStopped" /\ wait.pc = "done") =>
        /\ StatePolls >= 1
        /\ wait.res \in {"ok", "state error"} \cup ContextErrors
        /\ wait.res = "ok" =>
              /\ cluster.status = "stopped"
              /\ StatePolls = wait.elapsed + 1
        /\ wait.res = "state error" => StatePolls = wait.elapsed + 1
        /\ wait.res = "context deadline exceeded" =>
              /\ ~ctxDone
              /\ wait.elapsed = wait.limit
              /\ StatePolls = wait.limit + 1
        /\ wait.res = "context canceled" => ctxDone

\* the deadline had passed before the first poll interval, the caller's
\* context was done at entry or not, and the waiter polled once all the same
C22_Witness ==
    /\ op = "wait"
    /\ wait.fn = "waitVMStopped" /\ wait.pc = "done"
    /\ wait.limit = 0
    /\ wait.res = "context deadline exceeded"
    /\ StatePolls = 1

\* success at the first poll, with the caller's context already done
C22_SuccessDespiteDone ==
    /\ op = "wait"
    /\ wait.fn = "waitVMStopped" /\ wait.pc = "done"
    /\ ctxDone /\ wait.res = "ok" /\ wait.elapsed = 0

\* the agent queries of the IP waiter
AgentQueries == Count("GetVmAgentNetworkInterfaces", "vm")

\* a waiter is never more than its timeout into its wait, and has called the
\* cluster at most once per poll interval: it returns within one interval
\* (and one call) after the deadline
WithinDeadline ==
    /\ wait.elapsed <= wait.limit
    /\ wait.fn = "waitVMStopped" => StatePolls <= wait.limit + 1
    /\ wait.fn = "waitVMBootUpGetIP" => AgentQueries <= wait.limit

\* the IP waiter's timeout means: the deadline passed and no query succeeded
TimeoutOnlyAtDeadline ==
    (wait.fn = "waitVMBootUpGetIP" /\ wait.res = "timeout when waiting guest agent") =>
        /\ wait.elapsed = wait.limit
        /\ wait.err \in {"none", "500 QEMU guest agent is not running"}
        /\ wait.ifaces = <<>>
        /\ AgentQueries = wait.limit

\* C23: whatever the cluster answers, waitVMStopped and waitVMBootUpGetIP
\* eventually return, at the latest one poll interval after their deadline,
\* and the IP waiter returns its timeout error only when the deadline has
\* passed without a successful agent reply.
C23_WaitersTerminate ==
    /\ <>(wait.pc = "done")
    /\ [](WithinDeadline /\ TimeoutOnlyAtDeadline)

\* the agent never ran for the whole timeout and the IP waiter gave up
C23_Witness ==
    /\ op = "wait"
    /\ wait.fn = "waitVMBootUpGetIP" /\ wait.pc = "done"
    /\ wait.limit = MaxPolls
    /\ AgentQueries = MaxPolls
    /\ wait.res = "timeout when waiting guest agent"

\* the VM never stopped for the whole timeout and the state waiter gave up
C23_StateWaiterGaveUp ==
    /\ op = "wait"
    /\ wait.fn = "waitVMStopped" /\ wait.pc = "done"
    /\ wait.limit = MaxPolls
    /\ StatePolls = MaxPolls + 1
    /\ wait.res = "context deadline exceeded"

\* the agent errors that contain "guest agent is not running"
RetrySignals == {"500 QEMU guest agent is not running"}

\* the last agent query of the IP waiter failed with this error
AgentAnswered(errs) == wait.fn = "waitVMBootUpGetIP" /\ wait.err \in errs

\* after a retry signal no failure is reported: the waiter is back at the top
\* of its loop, or has found its deadline passed there
RetryPending ==
    AgentAnswered(RetrySignals) =>
        \/ wait.pc = "poll" /\ wait.res = "none"
        \/ wait.pc = "done" /\ wait.res = "timeout when waiting guest agent"

\* after any other error the wait is over, with a failure
FailedAtOnce ==
    AgentAnswered(AgentErrors \ RetrySignals) =>
        /\ wait.pc = "done"
        /\ wait.res = "failed to get agent network interfaces"

\* a query answered by a retry signal costs one poll interval; after another
\* error no query follows
RetryStep ==
    /\ (AgentQueries' > AgentQueries /\ wait'.err \in RetrySignals) =>
          wait'.elapsed = wait.elapsed + 1
    /\ AgentAnswered(AgentErrors \ RetrySignals) => AgentQueries' = AgentQueries

\* C24: an agent query error containing "guest agent is not running" makes
\* the IP waiter wait one poll interval and go round its loop again without
\* reporting a failure; any other agent query error ends the wait at once
\* with a failure and no further query.
C24_RetryRule == [](RetryPending /\ FailedAtOnce) /\ [][RetryStep]_vars

\* the agent was not running at the first query and the waiter asked again
C24_Witness ==
    /\ op = "wait"
    /\ AgentAnswered(RetrySignals)
    /\ wait.pc = "poll"
    /\ AgentQueries = 2

\* an error that is no retry signal, though it says "is not running", ended
\* the wait at the first query
C24_OtherErrorEnds ==
    /\ op = "wait"
    /\ AgentAnswered({"500 VM 100 is not running"})
    /\ wait.pc = "done" /\ wait.limit = MaxPolls
    /\ AgentQueries = 1

\* the IPv4 addresses of the interfaces called name, in the reply's order
RECURSIVE IPv4Of(_, _)
IPv4Of(ifaces, name) ==
    IF ifaces = <<>> THEN <<>>
    ELSE (IF Head(ifaces).name = name
          THEN SelectSeq(Head(ifaces).ips, LAMBDA ip : ip.v4)
          ELSE <<>>) \o IPv4Of(Tail(ifaces), name)

\* the agent answered with interfaces, and eth0 has at least n IPv4 addresses
AgentListed(n) ==
    /\ wait.fn = "waitVMBootUpGetIP"
    /\ wait.res = "ok"
    /\ Len(IPv4Of(wait.ifaces, "eth0")) >= n

\* C25: when the agent reply lists eth0 with IPv4 addresses, the recorded
\* ipv4_address is the first of them in the reply's order.
C25_FirstIPv4 ==
    AgentListed(1) => d.ipv4 = IPv4Of(wait.ifaces, "eth0")[1].addr

\* what the code records: the last IPv4 address of eth0
C25_LastIPv4 ==
    AgentListed(1) =>
        d.ipv4 = IPv4Of(wait.ifaces, "eth0")[Len(IPv4Of(wait.ifaces, "eth0"))].addr

\* the other half of C25: no address of another interface and no non-IPv4
\* address is ever recorded
C25_OnlyPrimaryIPv4 ==
    (wait.fn = "waitVMBootUpGetIP" /\ wait.res = "ok") =>
        \/ d.ipv4 \in {"", "10.0.0.9"}
        \/ \E i \in 1..Len(IPv4Of(wait.ifaces, "eth0")) :
              d.ipv4 = IPv4Of(wait.ifaces, "eth0")[i].addr

\* eth0 was listed with two IPv4 addresses
C25_SeveralAddresses == AgentListed(2) /\ d.ipv4 = "10.0.0.6"

\* how far the scanner has come
Rank(state) == CASE state = "none" -> 0 [] state = "begin" -> 1
                 [] state = "finish" -> 2 [] state = "end" -> 3

\* the marker that moves the scanner on from a state
Awaited(state, boundry) ==
    CASE state = "none" -> Marker("CMD-BEGIN-", boundry)
      [] state = "begin" -> Marker("CMD-FINISH-", boundry)
      [] state = "finish" -> Marker("CMD-END-", boundry)
      [] OTHER -> ""

\* this step of the executor reads a line; exec'.last is the line
ReadsLine == exec.pc = "X_ReadLine" /\ exec'.nread = exec.nread + 1

\* what a line read may do to the scanner
ScanStep ==
    ReadsLine =>
        /\ exec'.state = IF exec'.last = Awaited(exec.state, exec.boundry)
                         THEN CHOOSE s \in {"begin", "finish", "end"} :
                                 Rank(s) = Rank(exec.state) + 1
                         ELSE exec.state
        /\ exec'.footer = IF exec.state = "finish" /\ exec'.state = "finish"
                          THEN Append(exec.footer, exec'.last)
                          ELSE exec.footer

\* C26: the scanner only moves forward, none, begin, finish, end, one state
\* at a time and only on a line equal to the awaited marker with this
\* session's boundary; the footer grows by exactly the lines read in state
\* finish that are not the end marker, and is empty in states none and begin.
C26_Scanner ==
    /\ [](exec.state \in {"none", "begin"} => exec.footer = <<>>)
    /\ [][ScanStep]_vars

\* a whole session: a line read before the finish marker that changed
\* nothing, the three markers, one footer line
C26_Witness ==
    /\ op = "exec"
    /\ exec.state = "end"
    /\ exec.nread = 5
    /\ Len(exec.footer) = 1

\* the echo of the typed command, which contains all three markers, was read
\* in state none and moved nothing
C26_EchoIgnored ==
    /\ op = "exec"
    /\ exec.nread = 1 /\ exec.state = "none"
    /\ exec.last \notin { Marker("CMD-END-", b) : b \in Boundaries }
    /\ exec.last \notin { StatusLine(n) : n \in ExitCodes }
    /\ exec.last # "Broadcast message from root@pve\r\n"

\* the scan loop is left by this step
LeavesLoop == exec.pc = "X_ReadLine" /\ exec'.pc # "X_ReadLine"

\* the end marker of this session arrives while the scanner is in state finish
EndMarkerRead ==
    /\ ReadsLine
    /\ exec.state = "finish"
    /\ exec'.last = Marker("CMD-END-", exec.boundry)

\* the read failed or timed out: nothing was read, nothing is parsed
ReadFailed ==
    /\ exec'.nread = exec.nread
    /\ exec'.state = exec.state /\ exec'.footer = exec.footer
    /\ exec'.res = "failed to read message"

\* the two ways out of the loop, and no way out for any other line
LoopExit ==
    /\ LeavesLoop =>
          \/ EndMarkerRead /\ exec'.res = ParseFooter(exec.footer)
          \/ ReadFailed
    /\ (ReadsLine /\ ~EndMarkerRead) => (exec'.pc = "X_ReadLine" /\ exec'.res = "none")

\* C27: the scan loop is left only by reading the end marker of this session
\* in state finish, after which the footer is parsed, or by a failed or timed
\* out read, which fails the call in any scanner state without parsing; any
\* other line, however many have been read, keeps the call in the loop.
C27_LoopExits == [][LoopExit]_vars

\* MaxLines lines have arrived, none of them ended the session, and the call
\* is still reading
C27_Witness ==
    /\ op = "exec"
    /\ exec.pc = "X_ReadLine"
    /\ exec.nread = MaxLines
    /\ exec.state = "finish"
    /\ exec.res = "none"

\* a read failed in state finish, with a status line already in the footer
C27_FailedInFinish ==
    /\ op = "exec"
    /\ exec.state = "finish" /\ exec.footer # <<>>
    /\ exec.res = "failed to read message"

\* the messages of one session, in the order of the code
SendOrder(command, boundry) ==
    <<TicketLine, ResizeMessage, CommandFrame(command, boundry), NewlineFrame>>

\* s is the beginning of t
IsPrefix(s, t) == Len(s) <= Len(t) /\ s = SubSeq(t, 1, Len(s))

\* what has been sent so far is a beginning of the fixed order
SentInOrder ==
    \/ Len(exec.sent) <= 2 /\ IsPrefix(exec.sent, <<TicketLine, ResizeMessage>>)
    \/ Len(exec.sent) > 2 /\ IsPrefix(exec.sent, SendOrder(exec.command, exec.boundry))

\* nothing after the ticket goes out before "OK" was read, and no line is
\* read before the newline frame went out
SendGates ==
    /\ Len(exec.sent) >= 2 => (exec.replied /\ exec.reply = <<"O", "K">>)
    /\ exec.replied => Len(exec.sent) >= 1
    /\ exec.nread > 0 => Len(exec.sent) = 4

\* once the call has a result nothing more is sent in it
NoSendAfterFailure ==
    (exec.res # "none" /\ exec'.pc # "idle") => exec'.sent = exec.sent

\* a write failed: the call ends with the write's error
WriteFailed ==
    (/\ exec.pc \in {"X_SendTicket", "X_SendResize", "X_SendCommand", "X_SendNewline"}
     /\ exec' # exec
     /\ exec'.sent = exec.sent) =>
        /\ exec'.pc = "X_Close"
        /\ exec'.res = IF exec.pc = "X_SendTicket" THEN "failed to send ticket"
                       ELSE "failed to send message"

\* C28: on one session the ticket line, the resize message, the command
\* frame and the newline frame are sent in this order, each at most once;
\* the command frame is not sent before the OK reply was read, no output line
\* is read before the newline frame was sent, and a failed write ends the
\* call with no later message sent.
C28_SendOrder ==
    /\ [](SentInOrder /\ SendGates)
    /\ [][NoSendAfterFailure /\ WriteFailed]_vars

\* all four messages went out and output is being read
C28_Witness ==
    /\ op = "exec"
    /\ exec.sent = SendOrder(exec.command, exec.boundry)
    /\ exec.nread > 0

\* the write of the command frame failed: the call is over after two messages
C28_CommandWriteFailed ==
    /\ op = "exec"
    /\ exec.pc = "done"
    /\ Len(exec.sent) = 2
    /\ exec.res = "failed to send message"
    /\ exec.reply = <<"O", "K">>

\* the step of replaceTemplate a call belongs to: 1, 2 the two reads of the
\* compatibility check, 3 id allocation, 4 clone, 5 refresh of the clone,
\* 6 detach of slot 0, 7 disk move, 8 removal of unused0, 9 and 10 attribute
\* propagation (updates, deletes), 11 deletion of the auxiliary VM
StepOf(c) ==
    CASE c.call = "GetVmConfig" /\ c.vm = "tpl" -> 1
      [] c.call = "GetVmConfig" /\ c.vm = "vm" -> 2
      [] c.call = "GetNextID" -> 3
      [] c.call = "CloneQemuVm" -> 4
      [] c.call = "CheckVmRef" /\ c.vm = "aux" -> 5
      [] c.call = "moveQemuDisk" -> 7
      [] c.call = "DeleteVm" /\ c.vm = "aux" -> 11
      [] c.call = "SetVmConfig" /\ c.vm = "vm" ->
            IF ~Has(c.params, "delete") THEN 9
            ELSE IF c.params["delete"] = "scsi0" THEN 6
            ELSE IF c.params["delete"] = "unused0" THEN 8
            ELSE 10
      [] OTHER -> 0

\* the calls of the running replaceTemplate are its steps in order: 1 to 8
\* without a gap, then what there is of 9 and 10, and 11 after the clone
StepsInOrder ==
    swap.pc # "idle" =>
        /\ \A i \in 1..Len(SwapCalls) :
              /\ StepOf(SwapCalls[i]) > 0
              /\ i > 1 => StepOf(SwapCalls[i]) > StepOf(SwapCalls[i - 1])
              /\ (i > 1 /\ StepOf(SwapCalls[i]) <= 8) =>
                     StepOf(SwapCalls[i]) = StepOf(SwapCalls[i - 1]) + 1
              /\ StepOf(SwapCalls[i]) \in {9, 10} =>
                     \E j \in 1..(i - 1) : StepOf(SwapCalls[j]) = 8
              /\ StepOf(SwapCalls[i]) = 11 =>
                     \E j \in 1..(i - 1) : StepOf(SwapCalls[j]) = 4
        /\ Len(SwapCalls) > 0 => StepOf(SwapCalls[1]) = 1

\* replaceTemplate has fixed the value it returns
SwapDecided == swap.pc # "idle" /\ swap.res # "none"

\* from then on the value stays, and the only call still made is the
\* deletion of the auxiliary VM
AfterDecision ==
    (SwapDecided /\ swap'.pc # "idle") =>
        /\ swap'.res = swap.res
        /\ \/ calls' = calls
           \/ calls' = Append(calls, Call("DeleteVm", "aux", EmptyMap))

\* C29: replaceTemplate issues compatibility check, id allocation, clone,
\* detach of slot 0, disk move, removal of unused0, attribute propagation
\* and deletion of the auxiliary VM in this order; after a failed step the
\* only call still made is that deletion, and the value returned is the
\* failed step's error, or success, whatever the deletion does.
C29_StepOrder == []StepsInOrder /\ [][AfterDecision]_vars

\* all eleven steps ran, both attribute writes included
C29_Witness ==
    /\ swap.pc = "done" /\ swap.res = "ok"
    /\ Len(SwapCalls) = 11

\* the disk move failed: steps 8 to 10 were skipped, the deletion was not
C29_FailedMove ==
    /\ swap.pc = "done" /\ swap.res = "failed to replace disk"
    /\ Len(SwapCalls) = 8
    /\ StepOf(SwapCalls[8]) = 11
    /\ cluster.auxExists

\* replaceTemplate has returned success and the cluster accepted every call
\* of it, the deferred deletion included
SwapSucceeded == swap.pc = "done" /\ swap.res = "ok" /\ swap.err = "<nil>"

\* the boot disk the target had when the swap began
PreviousBootDisk == swap.vmConfig["scsi0"]

\* the boot disk of the clone made from the new template
ClonedBootDisk == ClonedConfig(swap.tplConfig, CloneParams(d.new.name))["scsi0"]

\* the placeholder slots of a config
UnusedKeys(config) ==
    {k \in DOMAIN config : k \in {DeviceName("unused", n) : n \in 0..(MaxDisks + 2)}}

\* the data disk slots of a config
DataDiskKeys(config) == {k \in DOMAIN config : IsDiskKey(k) /\ k # "scsi0"}

BootDiskReplaced ==
    /\ Has(cluster.config, "scsi0")
    /\ cluster.config["scsi0"] = ClonedBootDisk
    /\ ClonedBootDisk # PreviousBootDisk

PreviousBootDiskGone ==
    \A k \in UnusedKeys(cluster.config) : cluster.config[k] # PreviousBootDisk

DataDisksUnchanged ==
    /\ DataDiskKeys(cluster.config) = DataDiskKeys(swap.vmConfig)
    /\ \A k \in DataDiskKeys(swap.vmConfig) : cluster.config[k] = swap.vmConfig[k]

\* C30: when replaceTemplate returns success and the cluster applied every
\* call, slot 0 of the target holds the disk cloned from the new template,
\* the previous boot disk is neither at slot 0 nor behind an unused
\* placeholder, the other disk slots are as before, and the auxiliary VM no
\* longer exists.
C30_SwapPostcondition ==
    SwapSucceeded =>
        /\ BootDiskReplaced
        /\ PreviousBootDiskGone
        /\ DataDisksUnchanged
        /\ ~cluster.auxExists

\* the target came with a placeholder at unused0: the detached boot disk went
\* to unused1 and is still there after the swap, while the disk behind
\* unused0 was the one removed
C30_BootDiskLeftBehind ==
    /\ SwapSucceeded
    /\ Has(swap.vmConfig, "unused0")
    /\ Has(cluster.config, "unused1") /\ cluster.config["unused1"] = PreviousBootDisk
    /\ ~Has(cluster.config, "unused0")

\* C30 for a target without placeholders: there the postcondition holds
C30_CleanTarget ==
    (SwapSucceeded /\ UnusedKeys(swap.vmConfig) = {}) => 
        /\ BootDiskReplaced
        /\ PreviousBootDiskGone
        /\ DataDisksUnchanged
        /\ ~cluster.auxExists
        /\ UnusedKeys(cluster.config) = {}

\* a swap on a clean target with data disks has succeeded
C30_CleanSwapDone ==
    /\ SwapSucceeded
    /\ UnusedKeys(swap.vmConfig) = {}
    /\ DataDiskKeys(swap.vmConfig) # {}

\* success is returned although the deletion of the auxiliary VM failed
C30_AuxLeftBehind ==
    /\ swap.pc = "done" /\ swap.res = "ok"
    /\ swap.err = "failed to delete aux vm"
    /\ cluster.auxExists

----------------------------------------------------------------------------
(* Attribute propagation, rollback, Create's write, power status, Read *)

\* the attributes replaceTemplate may carry over
AllowList == {"ostype", "vga", "cpu"}

\* the allow-list attributes on which template and target differed when the
\* swap read the two configs
Differing == {n \in AllowList : Get(swap.tplConfig, n) # Get(swap.vmConfig, n)}

\* the keys touched by the propagation calls (steps 9 and 10) of the swap
PropagationWrites ==
    UNION { DOMAIN SwapCalls[i].params : i \in {j \in 1..Len(SwapCalls) :
                                                   StepOf(SwapCalls[j]) = 9} }

PropagationDeletes ==
    UNION { {l[k] : k \in 1..Len(l)} :
              l \in { ParseDeleteList(SwapCalls[i].params["delete"]) :
                         i \in {j \in 1..Len(SwapCalls) : StepOf(SwapCalls[j]) = 10} } }

\* C31: after a successful swap every allow-list attribute (ostype, vga,
\* cpu) of the target equals the template's value as read at the start of the
\* swap, absent when the template has none; only attributes that differed
\* are written or deleted, and nothing outside the allow-list is.
C31_AttributePropagation ==
    (swap.pc = "done" /\ swap.res = "ok") =>
        /\ \A n \in AllowList : Get(cluster.config, n) = Get(swap.tplConfig, n)
        /\ PropagationWrites = {n \in Differing : Has(swap.tplConfig, n)}
        /\ PropagationDeletes = {n \in Differing : ~Has(swap.tplConfig, n)}
        /\ \A k \in DOMAIN swap.vmConfig \ (AllowList \cup UnusedKeys(swap.vmConfig)) :
              IsDiskKey(k) \/ (Has(cluster.config, k) /\ cluster.config[k] = swap.vmConfig[k])

\* one attribute was copied, one deleted and one agreed and was left alone
C31_Witness ==
    /\ swap.pc = "done" /\ swap.res = "ok"
    /\ PropagationWrites # {}
    /\ PropagationDeletes # {}
    /\ AllowList \ Differing # {}
    /\ \E n \in AllowList \ Differing : Has(swap.tplConfig, n)

\* replaceTemplate has returned the error of the disk move
MoveFailed == swap.pc = "done" /\ swap.res = "failed to replace disk"

\* C32: when the disk move fails after slot 0 of the target was detached,
\* replaceTemplate returns that error with the target left without a slot-0
\* disk and its old disk behind an unused placeholder; the only call after
\* the failed move is the deletion of the auxiliary VM: no reattach, no
\* restoring config write.
C32_NoRollback ==
    MoveFailed =>
        /\ ~Has(cluster.config, "scsi0")
        /\ \E k \in UnusedKeys(cluster.config) : cluster.config[k] = PreviousBootDisk
        /\ Len(SwapCalls) = 8
        /\ StepOf(SwapCalls[6]) = 6 /\ StepOf(SwapCalls[7]) = 7
        /\ SwapCalls[8] = Call("DeleteVm", "aux", EmptyMap)

\* the move failed on a target without placeholders: the old boot disk sits
\* behind unused0 and slot 0 is empty
C32_Witness ==
    /\ MoveFailed
    /\ ~Has(cluster.config, "scsi0")
    /\ Has(cluster.config, "unused0") /\ cluster.config["unused0"] = PreviousBootDisk

\* outside the swap too: Update returns the error and issues nothing after
\* the deletion of the auxiliary VM
C32_UpdateStopsAfterFailedSwap ==
    (op = "update" /\ result = "failed to replace template: failed to replace disk") =>
        /\ pc = "done"
        /\ calls[Len(calls)] = Call("DeleteVm", "aux", EmptyMap)
        /\ ~Has(cluster.config, "scsi0")

\* Update has returned the error of the failed move
C32_UpdateFailed ==
    /\ op = "update" /\ pc = "done"
    /\ result = "failed to replace template: failed to replace disk"

\* the config writes of the operation so far
ConfigWrites == Select(IsConfigWrite)

\* what Create has to write for a desired resource: cores, memory, onboot
\* when it is on, disk i at slot i, the snippet pointer when user data is given
DesiredEntries(new, vmid) ==
    {<<"cores", new.cores>>, <<"memory", new.memory>>}
        \cup (IF new.onboot THEN {<<"onboot", TRUE>>} ELSE {})
        \cup {<<DeviceName("scsi", i), DiskValue(new.disk[i])>> : i \in 1..Len(new.disk)}
        \cup (IF new.user_data # ""
              THEN {<<"cicustom", "user=local:snippets/vm-" \o ToString(vmid)
                                      \o "-cloudinit-user-data">>}
              ELSE {})

\* a parameter map as a set of pairs
Entries(params) == {<<k, params[k]>> : k \in DOMAIN params}

\* C33: Create applies cores, memory, onboot (when on), every requested disk
\* at slot index+1 and the cicustom pointer (when user data is given) in
\* exactly one config write; the start request comes only after that write
\* and only when the desired status is running; with desired status stopped
\* Create issues no start request and no agent query.
C33_CreateSingleWrite ==
    op = "create" =>
        /\ Len(ConfigWrites) <= 1
        /\ \A i \in 1..Len(ConfigWrites) :
              Entries(ConfigWrites[i].params) = DesiredEntries(d.new, VmId)
        /\ (pc = "done" /\ result = "ok") => Len(ConfigWrites) = 1
        /\ Issued("StartVm", "vm") =>
              /\ d.new.status = "running"
              /\ Count("StartVm", "vm") = 1
              /\ Issued("SetVmConfig", "vm")
              /\ First("SetVmConfig", "vm") < First("StartVm", "vm")
              /\ \A e \in DesiredEntries(d.new, VmId) :
                    Has(cluster.config, e[1]) /\ cluster.config[e[1]] = Stored(e[1], e[2])
        /\ Issued("GetVmAgentNetworkInterfaces", "vm") => Issued("StartVm", "vm")
        /\ d.new.status = "stopped" =>
              ~Issued("StartVm", "vm") /\ ~Issued("GetVmAgentNetworkInterfaces", "vm")

\* a Create with a disk and onboot on has written everything at once and
\* started the VM
C33_Witness ==
    /\ op = "create" /\ pc = "done" /\ result = "ok"
    /\ d.new.onboot /\ Len(d.new.disk) = MaxDisks
    /\ Issued("StartVm", "vm")

\* a Create with user data and desired status stopped has returned success
C33_StoppedWithUserData ==
    /\ op = "create" /\ pc = "done" /\ result = "ok"
    /\ d.new.user_data # "" /\ d.new.status = "stopped"
    /\ Len(ConfigWrites) = 1

\* Update has read the power state that drives start and shutdown
StatusRead == op = "update" /\ loc.currentStatus # ""

\* the calls of the power step: requests, polls, and the agent's part
PowerStepCalls ==
    {"ShutdownVm", "StartVm", "GetVmState", "GetVmConfig", "GetVmAgentNetworkInterfaces"}

\* after the read nothing is written, moved, cloned or deleted any more
NothingStructuralAfterRead ==
    (StatusRead /\ calls' # calls) =>
        /\ Len(calls') = Len(calls) + 1
        /\ calls'[Len(calls')].call \in PowerStepCalls

\* at the read, everything the plan asked for has been issued
StructureDoneAtRead ==
    StatusRead =>
        /\ DOMAIN PlanUpdates # {} => Len(ConfigWrites) >= 1
        /\ HasChange("template_name") => Issued("DeleteVm", "aux")
        /\ (HasChange("cores") \/ HasChange("memory") \/ HasChange("template_name")) =>
              Issued("ShutdownVm", "vm")

\* what Update has done by the time it returns success, or fails on the status
PowerOutcome ==
    StatusRead =>
        /\ (pc = "done" /\ result = "ok" /\ d.new.status = "stopped") =>
              /\ cluster.status = "stopped"
              /\ \/ loc.currentStatus = "stopped"
                 \/ /\ loc.currentStatus = "running"
                    /\ calls[Len(calls)].call = "GetVmState"
        /\ (pc = "done" /\ result = "ok" /\ d.new.status = "running"
              /\ loc.currentStatus = "stopped") => Count("StartVm", "vm") = 1
        /\ Issued("StartVm", "vm") =>
              /\ loc.currentStatus = "stopped" /\ d.new.status = "running"
              /\ Count("StartVm", "vm") = 1
        /\ loc.currentStatus \notin {"running", "stopped"} =>
              /\ pc = "done" /\ result = "unknown vm status"
              /\ calls[Len(calls)].call = "GetVmState"
              /\ ~Issued("StartVm", "vm")

\* C34: in Update the power-state read that drives start and shutdown comes
\* after all config writes, disk operations and the template swap; a
\* successful Update with desired status stopped has seen the VM stopped;
\* with desired status running and the VM found stopped exactly one start
\* was issued; a status other than running or stopped fails the Update with
\* no start or shutdown issued for it.
C34_PowerStatusLast ==
    /\ [](StructureDoneAtRead /\ PowerOutcome)
    /\ [][NothingStructuralAfterRead]_vars

\* after a config write and a template swap the VM was found stopped and
\* started once
C34_Witness ==
    /\ op = "update" /\ pc = "done" /\ result = "ok"
    /\ loc.currentStatus = "stopped" /\ d.new.status = "running"
    /\ Len(ConfigWrites) >= 1 /\ Issued("moveQemuDisk", "aux")
    /\ Count("StartVm", "vm") = 1

\* a paused VM made the Update fail at the read
C34_UnknownStatus ==
    /\ op = "update" /\ pc = "done"
    /\ loc.currentStatus = "paused"
    /\ result = "unknown vm status"

\* an Update that changes at most name, onboot and the disk list, on a VM
\* whose power status is the desired one
OnlySoftChanges ==
    /\ op = "update"
    /\ ~HasChange("cores") /\ ~HasChange("memory") /\ ~HasChange("template_name")
    /\ d.old.status = d.new.status

\* C35: an Update in which only name, onboot and/or the disk list change,
\* with the current power status equal to the desired one, issues no
\* shutdown and no start request.
C35_NoRestartForSoftChanges ==
    OnlySoftChanges =>
        /\ ~Issued("ShutdownVm", "vm")
        /\ ~Issued("StartVm", "vm")
        /\ wait = IdleWait

\* name, onboot and the disk list all changed, the Update succeeded, and the
\* VM was neither stopped nor started
C35_Witness ==
    /\ OnlySoftChanges
    /\ HasChange("name") /\ HasChange("onboot") /\ HasChange("disk")
    /\ pc = "done" /\ result = "ok"
    /\ Len(ConfigWrites) >= 2
    /\ cluster.status = "running"

\* the call this step issues, when it issues one
IssuesNow(name, vm) ==
    /\ Len(calls') = Len(calls) + 1
    /\ calls'[Len(calls')].call = name /\ calls'[Len(calls')].vm = vm

\* a destructive step begins: Delete's destroy call, or the first call of
\* the template swap in Update
DestructiveStep ==
    \/ op = "delete" /\ IssuesNow("DeleteVm", "vm")
    \/ op = "update" /\ swap.pc = "R_GetTplConfig" /\ IssuesNow("GetVmConfig", "tpl")

\* it begins on a VM that was asked to shut down and was last seen stopped
\* by the waiter's poll
OnStoppedVm ==
    DestructiveStep =>
        /\ Issued("ShutdownVm", "vm")
        /\ calls[Len(calls)].call = "GetVmState"
        /\ cluster.status = "stopped"

\* the errors of the shutdown request and of the wait after it
ShutdownErrors ==
    {"failed to stop vm", "failed to shutdown vm"}
        \cup {"wait vm stopped: " \o e : e \in {"state error"} \cup ContextErrors}

\* a failed shutdown or wait is returned with nothing destroyed or swapped
NotOnFailure ==
    result \in ShutdownErrors =>
        /\ pc = "done"
        /\ op = "delete" => ~Issued("DeleteVm", "vm")
        /\ (op = "update" /\ HasChange("template_name")) => SwapCalls = <<>>

C36_SwapNotBegun ==
    /\ op = "update" /\ HasChange("template_name")
    /\ result = "wait vm stopped: context deadline exceeded"
    /\ SwapCalls = <<>>

\* every error executeCommandOnNode can return
ExecFailures ==
    {"failed to acquire termproxy ticket", "failed to create websocket connection",
     "failed to send ticket", "failed to read response", "incorrect ticket",
     "failed to send message", "failed to read message", "exit_status not found in footer"}
        \cup {"command failed with exit status " \o ToString(n) : n \in ExitCodes \ {0}}

\* Create has returned the error of the snippet upload
UploadFailed ==
    /\ op = "create"
    /\ result \in {"failed to configure user_data: " \o e : e \in ExecFailures}

\* the upload has returned and Create has not yet looked at its result
UploadReturned == op = "create" /\ pc = "C_Executed" /\ exec.pc = "done"

\* the pointer is part of what Create is about to write, or has written
PointerPlanned == op = "create" /\ Has(loc.updates, "cicustom")

\* Create takes the pointer into its write only on a successful upload, and
\* returns on a failed one
UploadDecides ==
    UploadReturned =>
        /\ exec.res \in ExecFailures \cup {"ok"}
        /\ exec.res = "ok" => (PointerPlanned' /\ result' = "none")
        /\ exec.res # "ok" =>
              (~PointerPlanned' /\ result' = "failed to configure user_data: " \o exec.res)

\* C37: Create writes the cicustom pointer to the VM config only if the
\* snippet upload returned success; when the upload fails Create returns an
\* error having issued no config write and no start, so the config never
\* points at a snippet that was not written.
C37_PointerOnlyAfterUpload ==
    /\ [](op = "create" =>
            /\ UploadFailed =>
                  /\ pc = "done"
                  /\ ConfigWrites = <<>>
                  /\ ~Issued("StartVm", "vm")
            /\ (PointerPlanned \/ Has(cluster.config, "cicustom")) =>
                  /\ d.new.user_data # ""
                  /\ Issued("termproxy", "pve")
                  /\ ~UploadFailed
            /\ \A i \in 1..Len(ConfigWrites) :
                  Has(ConfigWrites[i].params, "cicustom") => PointerPlanned)
    /\ [][UploadDecides]_vars

\* the upload ended with exit status 1 and Create returned without a write
C37_Witness ==
    /\ op = "create" /\ pc = "done"
    /\ result = "failed to configure user_data: command failed with exit status 1"
    /\ ConfigWrites = <<>>
    /\ cluster.exists

\* the upload succeeded and the pointer is in the VM's config
C37_PointerWritten ==
    /\ op = "create"
    /\ Has(cluster.config, "cicustom")
    /\ cluster.config["cicustom"] = "user=local:snippets/vm-100-cloudinit-user-data"

\* Create has failed
CreateFailed == op = "create" /\ pc = "done" /\ result # "ok"

\* the clone call is in the log and something was issued after it
PastClone == Issued("CloneQemuVm", "tpl") /\ First("CloneQemuVm", "tpl") < Len(calls)

\* the errors of the steps up to and including the clone
UpToCloneErrors ==
    {"api error", "template not found", "found multiple template with same template_name",
     "template is not for qemu vm", "failed to generate vmid", "failed to clone vm"}

\* C38: Create records the identifier of the new VM right after the clone
\* succeeded and before any later step: a failure of any later step leaves
\* it recorded, a failure before or at the clone leaves none recorded.
C38_IdRecordedAtClone ==
    op = "create" =>
        /\ d.id = (IF cluster.exists THEN VmId ELSE NoId)
        /\ PastClone => d.id = VmId
        /\ CreateFailed => (result \in UpToCloneErrors <=> ~PastClone)
        /\ (CreateFailed /\ result \in UpToCloneErrors) => d.id = NoId
        /\ (CreateFailed /\ result \notin UpToCloneErrors) => d.id = VmId

\* the start request failed: the VM exists and its identifier is recorded
C38_Witness ==
    /\ CreateFailed
    /\ result = "failed to start vm"
    /\ d.id = VmId /\ cluster.exists

\* the clone itself failed: nothing is recorded
C38_CloneFailed ==
    /\ CreateFailed
    /\ result = "failed to clone vm"
    /\ d.id = NoId /\ ~cluster.exists

\* the first step after the clone failed: the identifier is there already
C38_FirstStepAfterClone ==
    /\ CreateFailed
    /\ result = "failed to check vm"
    /\ First("CloneQemuVm", "tpl") = Len(calls) - 1
    /\ d.id = VmId

\* an Update that changes cores or memory and keeps the template
HardwareChange ==
    /\ op = "update"
    /\ HasChange("cores") \/ HasChange("memory")
    /\ ~HasChange("template_name")

\* the config write of the Update has been applied by the cluster
WriteApplied ==
    /\ cluster.config["cores"] = d.new.cores
    /\ cluster.config["memory"] = d.new.memory
    /\ cluster.config["name"] = d.new.name

\* C39: when cores or memory change and the template name does not, Update
\* issues the shutdown request right after the config write, without a
\* power-state read before it, so also to a VM that is already stopped; a
\* failure of that request fails the Update with the config write applied.
C39_ShutdownUnconditional ==
    HardwareChange =>
        /\ Issued("ShutdownVm", "vm") =>
              /\ ~Issued("GetVmState", "vm")
                    \/ First("ShutdownVm", "vm") < First("GetVmState", "vm")
              /\ calls[First("ShutdownVm", "vm") - 1] = Call("SetVmConfig", "vm", PlanUpdates)
        /\ StatusRead => Issued("ShutdownVm", "vm")
        /\ result = "failed to shutdown vm" =>
              /\ pc = "done"
              /\ WriteApplied
              /\ ~Issued("StartVm", "vm")

\* the request went to a VM that was stopped all along, failed, and left the
\* new cores and memory written
C39_Witness ==
    /\ HardwareChange
    /\ d.old.status = "stopped" /\ cluster.status = "stopped"
    /\ result = "failed to shutdown vm"
    /\ WriteApplied
    /\ HasChange("cores")

\* the requests that only ask the cluster something
ReadQueries == {"CheckVmRef", "GetVmConfig", "GetVmState", "GetVmAgentNetworkInterfaces"}

\* the requests that change the cluster or run something on it
ReadForbidden ==
    {"SetVmConfig", "StartVm", "ShutdownVm", "CloneQemuVm", "DeleteVm",
     "moveQemuDisk", "termproxy"}

\* the calls a step has added to the log
NewCalls == SubSeq(calls', Len(calls) + 1, Len(calls'))

ReadStepQueriesOnly ==
    op = "read" =>
        /\ cluster' = cluster
        /\ Len(calls') >= Len(calls)
        /\ SubSeq(calls', 1, Len(calls)) = calls
        /\ \A i \in 1..Len(NewCalls) :
              /\ NewCalls[i].call \in ReadQueries
              /\ NewCalls[i].call \notin ReadForbidden
        /\ exec' = exec /\ swap' = swap

\* C40: Read leaves the cluster unchanged: every step of it issues only
\* queries (existence check, config read, power-state read, agent interface
\* query) and never a config write, start, shutdown, clone, destroy or
\* remote command.
C40_ReadOnlyQueries == [][ReadStepQueriesOnly]_vars

\* a Read that went through all four queries and returned
C40_Witness ==
    /\ ReadDone
    /\ Len(calls) >= 4
    /\ \A q \in ReadQueries : Issued(q, "vm")
    /\ \A i \in 1..Len(calls) : calls[i].call \in ReadQueries
    /\ cluster.exists /\ cluster.status = "running"

\* a Read of a stopped VM ends after the power-state read, the VM still stopped
C40_StoppedStaysStopped ==
    /\ ReadDone /\ result = "ok"
    /\ cluster.status = "stopped"
    /\ Issued("GetVmState", "vm") /\ ~Issued("GetVmAgentNetworkInterfaces", "vm")

====
